---- MODULE Spec2Model ----
(***************************************************************************)
(* Sysdarft: the operand codec of utils/Assembler/encode.target.cpp and    *)
(* the CPU-side operand decoder, register access and executor of           *)
(* src/sysdarft_processor/cpu.                                             *)
(*                                                                         *)
(* Text is a sequence of one-character strings.  A 64-bit value is a       *)
(* sequence of eight bytes, least significant first, which is also its     *)
(* layout on the wire and in memory.                                       *)
(***************************************************************************)
EXTENDS Integers, Sequences, FiniteSets, TLC

\* Evaluate e once and hand its value to F: the value of a local, computed
\* where the code computes it.
Let(e, F(_)) == CHOOSE r \in {F(x) : x \in {e}} : TRUE

(***************************************************************************)
(* Bytes and 64-bit words                                                  *)
(***************************************************************************)
Byte == 0..255

Zero64 == <<0, 0, 0, 0, 0, 0, 0, 0>>

\* uint64_t v = small, for 0 <= small < 2^31
FromInt(n) ==
    LET q[i \in 0..8] == IF i = 0 THEN n ELSE q[i-1] \div 256
    IN  [i \in 1..8 |-> q[i-1] % 256]

\* uint64_t addition, wrapping
Add64(a, b) ==
    LET c[i \in 0..8] == IF i = 0 THEN 0 ELSE (a[i] + b[i] + c[i-1]) \div 256
    IN  [i \in 1..8 |-> (a[i] + b[i] + c[i-1]) % 256]

\* uint64_t multiplication by a value below 256, wrapping
MulSmall64(a, m) ==
    LET c[i \in 0..8] == IF i = 0 THEN 0 ELSE (a[i] * m + c[i-1]) \div 256
    IN  [i \in 1..8 |-> (a[i] * m + c[i-1]) % 256]

\* a * m + d and whether it left 64 bits
MulAdd64(a, m, d) ==
    LET c[i \in 0..8] == IF i = 0 THEN d ELSE (a[i] * m + c[i-1]) \div 256
    IN  [w   |-> [i \in 1..8 |-> (a[i] * m + c[i-1]) % 256],
         ovf |-> c[8] # 0]

\* two's complement negation
Neg64(a) == Add64([i \in 1..8 |-> 255 - a[i]], FromInt(1))

\* the sign bit of the int64_t reading
IsNeg64(a) == a[8] >= 128

Max64 == [i \in 1..8 |-> 255]
MaxS64 == [i \in 1..8 |-> IF i = 8 THEN 127 ELSE 255]
MinS64 == [i \in 1..8 |-> IF i = 8 THEN 128 ELSE 0]

\* a / 10 and a % 10
DivMod10(a) ==
    LET r[i \in 1..9] == IF i = 9 THEN 0 ELSE (r[i+1] * 256 + a[i]) % 10
    IN  [q |-> [i \in 1..8 |-> (r[i+1] * 256 + a[i]) \div 10],
         r |-> r[1]]

(***************************************************************************)
(* Text                                                                    *)
(***************************************************************************)
DecDigits == <<"0", "1", "2", "3", "4", "5", "6", "7", "8", "9">>
HexDigits == DecDigits \o <<"A", "B", "C", "D", "E", "F">>
LowerCase == <<"a", "b", "c", "d", "e", "f", "g", "h", "i", "j", "k", "l", "m",
               "n", "o", "p", "q", "r", "s", "t", "u", "v", "w", "x", "y", "z">>
UpperCase == <<"A", "B", "C", "D", "E", "F", "G", "H", "I", "J", "K", "L", "M",
               "N", "O", "P", "Q", "R", "S", "T", "U", "V", "W", "X", "Y", "Z">>

IndexOf(seq, c) == CHOOSE i \in 1..Len(seq) : seq[i] = c
IsIn(seq, c) == \E i \in 1..Len(seq) : seq[i] = c
IsDecDigit(c) == IsIn(DecDigits, c)
DigitVal(c) == IndexOf(HexDigits, c) - 1

RECURSIVE Concat(_)
Concat(ss) == IF ss = <<>> THEN <<>> ELSE Head(ss) \o Concat(Tail(ss))

\* does text s carry text t at position p
StartsAt(s, t, p) ==
    /\ p + Len(t) - 1 <= Len(s)
    /\ \A k \in 1..Len(t) : s[p + k - 1] = t[k]

\* std::to_string / operator<< of a non-negative 64-bit value, in decimal
RECURSIVE ToDec(_)
ToDec(a) ==
    Let(DivMod10(a),
        LAMBDA dm : IF dm.q = Zero64 THEN <<DecDigits[dm.r + 1]>>
                    ELSE Append(ToDec(dm.q), DecDigits[dm.r + 1]))

\* operator<< of an int64_t
ToSignedDec(a) == IF IsNeg64(a) THEN <<"-">> \o ToDec(Neg64(a)) ELSE ToDec(a)

\* std::hex << std::uppercase of a uint64_t: no leading zeros
ToHex(a) ==
    LET nib == [k \in 1..16 |->
                  IF k % 2 = 1 THEN a[8 - (k \div 2)] \div 16
                  ELSE a[9 - (k \div 2)] % 16]
        nz  == {k \in 1..16 : nib[k] # 0}
        lo  == IF nz = {} THEN 16 ELSE CHOOSE k \in nz : \A j \in nz : k <= j
    IN  [k \in 1..(17 - lo) |-> HexDigits[nib[lo + k - 1] + 1]]

\* the value of a run of digits in the given base, and whether it left 64 bits
ParseStep(front, base, d) ==
    Let(MulAdd64(front.w, base, d),
        LAMBDA step : [w |-> step.w, ovf |-> front.ovf \/ step.ovf])

RECURSIVE ParseMag(_, _)
ParseMag(ds, base) ==
    IF ds = <<>> THEN [w |-> Zero64, ovf |-> FALSE]
    ELSE Let(ParseMag(SubSeq(ds, 1, Len(ds) - 1), base),
             LAMBDA front : ParseStep(front, base, DigitVal(ds[Len(ds)])))


(***************************************************************************)
(* utils/Assembler/encode.target.cpp: the assembler                        *)
(***************************************************************************)
REGISTER_PREFIX == 1
CONSTANT_PREFIX == 2
MEMORY_PREFIX == 3

\* the width tags and the packed-BCD ratio codes the encoder pushes
TAG_8 == 8
TAG_16 == 22
TAG_32 == 50
TAG_64 == 100

remove_space(str) == SelectSeq(str, LAMBDA c : c # " ")

toupper(c) == IF IsIn(LowerCase, c) THEN UpperCase[IndexOf(LowerCase, c)] ELSE c

capitalization(input) == [i \in 1..Len(input) |-> toupper(input[i])]

\* register_pattern: ^%(R[0-7]|EXR[0-7]|HER[0-7]|FER[0-7])$
RegisterClasses == {<<"R">>, <<"E", "X", "R">>, <<"H", "E", "R">>, <<"F", "E", "R">>}
RegisterIndexChars == {"0", "1", "2", "3", "4", "5", "6", "7"}

is_valid_register(input) ==
    \E cls \in RegisterClasses :
        /\ Len(input) = Len(cls) + 2
        /\ input[1] = "%"
        /\ StartsAt(input, cls, 2)
        /\ input[Len(input)] \in RegisterIndexChars

\* constant_pattern: ^\$\((.*)\)$
is_valid_constant(input) ==
    /\ Len(input) >= 3
    /\ input[1] = "$"
    /\ input[2] = "("
    /\ input[Len(input)] = ")"

\* memory_pattern: ^\*([1]|[2]|[4]|[8]|[1][6])\((.*),(.*),(.*)\)$
\* The ratio alternatives are tried in order; the three groups are greedy, so
\* the two separating commas are the last two commas before the final ")".
RatioTexts == <<<<"1">>, <<"2">>, <<"4">>, <<"8">>, <<"1", "6">>>>

MemoryRatioOf(input) ==
    LET ok == {k \in 1..Len(RatioTexts) :
                 /\ StartsAt(input, RatioTexts[k], 2)
                 /\ StartsAt(input, <<"(">>, 2 + Len(RatioTexts[k]))}
    IN  IF ok = {} THEN <<>> ELSE RatioTexts[CHOOSE k \in ok : \A j \in ok : k <= j]

MemoryCommas(input) ==
    LET open == 2 + Len(MemoryRatioOf(input))
    IN  {i \in (open + 1)..(Len(input) - 1) : input[i] = ","}

is_valid_memory(input) ==
    /\ Len(input) >= 6
    /\ input[1] = "*"
    /\ MemoryRatioOf(input) # <<>>
    /\ input[Len(input)] = ")"
    /\ Cardinality(MemoryCommas(input)) >= 2

MemoryGroups(input) ==
    LET open   == 2 + Len(MemoryRatioOf(input))
        commas == MemoryCommas(input)
        c2     == CHOOSE i \in commas : \A j \in commas : j <= i
        c1     == CHOOSE i \in commas \ {c2} : \A j \in commas \ {c2} : j <= i
    IN  [MemoryAccessRatio |-> MemoryRatioOf(input),
         MemoryBaseAddress |-> SubSeq(input, open + 1, c1 - 1),
         MemoryOffset1     |-> SubSeq(input, c1 + 1, c2 - 1),
         MemoryOffset2     |-> SubSeq(input, c2 + 1, Len(input) - 1)]

NoMemory == [MemoryAccessRatio |-> <<>>, MemoryBaseAddress |-> <<>>,
             MemoryOffset1 |-> <<>>, MemoryOffset2 |-> <<>>]

\* parse: the parsed_target_t, or the TargetExpressionError it throws
parse(text) ==
    LET input == capitalization(remove_space(text))
        blank == [thrown |-> FALSE, TargetType |-> "NOTaValidType",
                  RegisterName |-> <<>>, ConstantExpression |-> <<>>,
                  memory |-> NoMemory]
    IN  IF is_valid_register(input)
        THEN [blank EXCEPT !.TargetType = "REGISTER", !.RegisterName = input]
        ELSE IF is_valid_constant(input)
        THEN [blank EXCEPT !.TargetType = "CONSTANT", !.ConstantExpression = input]
        ELSE IF is_valid_memory(input)
        THEN [blank EXCEPT !.TargetType = "MEMORY", !.memory = MemoryGroups(input)]
        ELSE [blank EXCEPT !.thrown = TRUE]

\* the lambda replace_all of process_base16, scanning from position pos
RECURSIVE replace_all(_, _, _, _)
replace_all(input, target, replacement, pos) ==
    LET occ == {p \in pos..(Len(input) - Len(target) + 1) : StartsAt(input, target, p)}
    IN  IF target = <<>> \/ occ = {} THEN input
        ELSE LET p == CHOOSE q \in occ : \A r \in occ : q <= r
             IN  replace_all(SubSeq(input, 1, p - 1) \o replacement
                               \o SubSeq(input, p + Len(target), Len(input)),
                             target, replacement, p + Len(replacement))

\* the matches of base16_pattern 0x[0-9A-Fa-f]+ from position pos, left to right
IsHexDigit(c) == IsIn(HexDigits, c) \/ c \in {"a", "b", "c", "d", "e", "f"}

RECURSIVE HexRunEnd(_, _)
HexRunEnd(input, p) ==
    IF p + 1 <= Len(input) /\ IsHexDigit(input[p + 1]) THEN HexRunEnd(input, p + 1) ELSE p

RECURSIVE base16_matches(_, _)
base16_matches(input, pos) ==
    LET occ == {p \in pos..(Len(input) - 2) :
                  /\ input[p] = "0"
                  /\ input[p + 1] = "x"
                  /\ IsHexDigit(input[p + 2])}
    IN  IF occ = {} THEN <<>>
        ELSE LET p == CHOOSE q \in occ : \A r \in occ : q <= r
                 e == HexRunEnd(input, p + 2)
             IN  <<SubSeq(input, p, e)>> \o base16_matches(input, e + 1)

\* strtoull(tag, nullptr, 16) of a match "0x...": saturates at ULLONG_MAX
strtoull16(tag) ==
    LET m == ParseMag(capitalization(SubSeq(tag, 3, Len(tag))), 16)
    IN  IF m.ovf THEN Max64 ELSE m.w

RECURSIVE replace_each(_, _)
replace_each(input, data) ==
    IF data = <<>> THEN input
    ELSE replace_each(replace_all(input, Head(data), ToDec(strtoull16(Head(data))), 1),
                      Tail(data))

process_base16(input) ==
    LET fixed == replace_all(input, <<"0", "X">>, <<"0", "x">>, 1)
    IN  replace_each(fixed, base16_matches(fixed, 1))

\* The external calculator, on the expressions the model feeds it: an optional
\* unary minus and a decimal literal (or nothing at all).  It prints the value
\* in decimal without leading zeros.
IsDecLiteral(ds) == ds # <<>> /\ \A i \in 1..Len(ds) : IsDecDigit(ds[i])

RECURSIVE StripZeros(_)
StripZeros(ds) ==
    IF Len(ds) > 1 /\ Head(ds) = "0" THEN StripZeros(Tail(ds)) ELSE ds

bc(input) ==
    LET neg  == input # <<>> /\ Head(input) = "-"
        body == IF neg THEN Tail(input) ELSE input
        mag  == StripZeros(body)
    IN  IF input = <<>> THEN [exit_status |-> 0, fd_stdout |-> <<>>]
        ELSE IF ~IsDecLiteral(body) THEN [exit_status |-> 1, fd_stdout |-> <<>>]
        ELSE [exit_status |-> 0,
              fd_stdout   |-> IF neg /\ mag # <<"0">> THEN <<"-">> \o mag ELSE mag]

\* execute_bc that returns the output whatever the exit status is
execute_bc_unchecked(input) ==
    LET result == bc(input)
    IN  [thrown |-> FALSE, fd_stdout |-> result.fd_stdout]

\* execute_bc: the calculator's output, or the TargetExpressionError
execute_bc(input) ==
    LET result == bc(input)
    IN  [thrown |-> result.exit_status # 0, fd_stdout |-> result.fd_stdout]

\* strtoll / strtoull of the calculator's output, widened to __int128_t:
\* neg is the sign of the 128-bit value, w its low 64 bits
LeadingDigits(s) ==
    LET stop == {i \in 1..Len(s) : ~IsDecDigit(s[i])}
    IN  IF stop = {} THEN s
        ELSE SubSeq(s, 1, (CHOOSE i \in stop : \A j \in stop : i <= j) - 1)

strtoll(s) ==
    LET neg == s # <<>> /\ Head(s) = "-"
        m   == ParseMag(LeadingDigits(IF neg THEN Tail(s) ELSE s), 10)
    IN  IF neg
        THEN IF m.ovf \/ IsNeg64(m.w) THEN [neg |-> TRUE, w |-> MinS64]
             ELSE [neg |-> m.w # Zero64, w |-> Neg64(m.w)]
        ELSE IF m.ovf \/ IsNeg64(m.w) THEN [neg |-> FALSE, w |-> MaxS64]
             ELSE [neg |-> FALSE, w |-> m.w]

strtoull(s) ==
    LET neg == s # <<>> /\ Head(s) = "-"
        m   == ParseMag(LeadingDigits(IF neg THEN Tail(s) ELSE s), 10)
    IN  IF m.ovf THEN [neg |-> FALSE, w |-> Max64]
        ELSE [neg |-> FALSE, w |-> IF neg THEN Neg64(m.w) ELSE m.w]

\* push<LENGTH> / push8
push8(buffer, value) == Append(buffer, value)
push64(buffer, value) == buffer \o value

\* Every encoder returns the buffer as it leaves it and whether it threw.
encode_register(buffer, RegisterName) ==
    LET register_index == DigitVal(RegisterName[Len(RegisterName)])
        b1  == push8(buffer, REGISTER_PREFIX)
        cls == RegisterName[2]
    IN  IF cls \notin {"R", "E", "H", "F"} THEN [buffer |-> b1, thrown |-> TRUE]
        ELSE [buffer |-> push8(push8(b1, CASE cls = "R" -> TAG_8
                                           [] cls = "E" -> TAG_16
                                           [] cls = "H" -> TAG_32
                                           [] cls = "F" -> TAG_64),
                               register_index),
              thrown |-> FALSE]

\* encode_constant with the signed reading taken whatever the unsigned one is
encode_constant_signed_only(buffer, ConstantExpression) ==
    IF Len(ConstantExpression) <= 2 THEN [buffer |-> buffer, thrown |-> TRUE]
    ELSE
    Let(process_base16(SubSeq(ConstantExpression, 3, Len(ConstantExpression) - 1)),
        LAMBDA tmp :
    Let(execute_bc(tmp), LAMBDA result_from_bc :
    Let(strtoll(result_from_bc.fd_stdout), LAMBDA result :
    LET b1 == push8(buffer, CONSTANT_PREFIX)
    IN  IF result_from_bc.thrown THEN [buffer |-> b1, thrown |-> TRUE]
        ELSE [buffer |-> push64(push8(b1, IF result.neg THEN 1 ELSE 0), result.w),
              thrown |-> FALSE])))

encode_constant(buffer, ConstantExpression) ==
    IF Len(ConstantExpression) <= 2 THEN [buffer |-> buffer, thrown |-> TRUE]
    ELSE
    Let(process_base16(SubSeq(ConstantExpression, 3, Len(ConstantExpression) - 1)),
        LAMBDA tmp :
    Let(execute_bc(tmp), LAMBDA result_from_bc :
    Let(strtoll(result_from_bc.fd_stdout), LAMBDA result_cmp1 :
    Let(strtoull(result_from_bc.fd_stdout), LAMBDA result_cmp2 :
    LET b1     == push8(buffer, CONSTANT_PREFIX)
        result == IF result_cmp1 = result_cmp2 THEN result_cmp1
                  ELSE IF tmp # <<>> /\ Head(tmp) = "-" THEN result_cmp1
                  ELSE result_cmp2
    IN  IF result_from_bc.thrown THEN [buffer |-> b1, thrown |-> TRUE]
        ELSE [buffer |-> push64(push8(b1, IF result.neg THEN 1 ELSE 0), result.w),
              thrown |-> FALSE]))))

encode_each_parameter(buffer, param) ==
    IF is_valid_register(param)
    THEN IF SubSeq(param, 1, Len(param) - 1) # <<"%", "F", "E", "R">>
         THEN [buffer |-> buffer, thrown |-> TRUE]
         ELSE encode_register(buffer, param)
    ELSE IF is_valid_constant(param) THEN encode_constant(buffer, param)
    ELSE [buffer |-> buffer, thrown |-> TRUE]

encode_memory(buffer, memory) ==
    LET ratio == memory.MemoryAccessRatio
        b1 == push8(buffer, MEMORY_PREFIX)
        b2 == IF ratio = <<"1">> THEN push8(b1, 1)
              ELSE IF ratio = <<"2">> THEN push8(b1, 2)
              ELSE IF ratio = <<"4">> THEN push8(b1, 4)
              ELSE IF ratio = <<"8">> THEN push8(b1, 8)
              ELSE IF ratio = <<"1", "6">> THEN push8(b1, 22)
              ELSE b1
    IN  Let(encode_each_parameter(b2, memory.MemoryBaseAddress), LAMBDA p1 :
          IF p1.thrown THEN p1 ELSE
        Let(encode_each_parameter(p1.buffer, memory.MemoryOffset1), LAMBDA p2 :
          IF p2.thrown THEN p2 ELSE
        encode_each_parameter(p2.buffer, memory.MemoryOffset2)))

\* encode_target that returns where parse threw
encode_target_lenient(buffer, input) ==
    LET parsed == parse(input)
    IN  IF parsed.thrown THEN [buffer |-> buffer, thrown |-> FALSE]
        ELSE IF parsed.TargetType = "REGISTER"
        THEN encode_register(buffer, parsed.RegisterName)
        ELSE IF parsed.TargetType = "CONSTANT"
        THEN encode_constant(buffer, parsed.ConstantExpression)
        ELSE IF parsed.TargetType = "MEMORY"
        THEN encode_memory(buffer, parsed.memory)
        ELSE [buffer |-> buffer, thrown |-> TRUE]

encode_target(buffer, input) ==
    LET parsed == parse(input)
    IN  IF parsed.thrown THEN [buffer |-> buffer, thrown |-> TRUE]
        ELSE IF parsed.TargetType = "REGISTER"
        THEN encode_register(buffer, parsed.RegisterName)
        ELSE IF parsed.TargetType = "CONSTANT"
        THEN encode_constant(buffer, parsed.ConstantExpression)
        ELSE IF parsed.TargetType = "MEMORY"
        THEN encode_memory(buffer, parsed.memory)
        ELSE [buffer |-> buffer, thrown |-> TRUE]

(***************************************************************************)
(* utils/Assembler/encode.target.cpp: the disassembler                     *)
(*                                                                         *)
(* Every decoder returns the output fragments, the bytes left in the       *)
(* input, whether it threw, and whether a pop ran on too short a vector    *)
(* (oob: input[0] of an empty vector, which the language leaves            *)
(* undefined; decoding stops there in the model).                          *)
(***************************************************************************)
Decoded(output, input, thrown, oob) ==
    [output |-> output, input |-> input, thrown |-> thrown, oob |-> oob]

Drop(input, n) == SubSeq(input, n + 1, Len(input))

decode_register(output, input) ==
    IF Len(input) < 2 THEN Decoded(output, <<>>, FALSE, TRUE)
    ELSE
    LET register_size  == input[1]
        register_index == input[2]
        rest   == Drop(input, 2)
        prefix == CASE register_size = TAG_8  -> <<"%", "R">>
                    [] register_size = TAG_16 -> <<"%", "E", "X", "R">>
                    [] register_size = TAG_32 -> <<"%", "H", "E", "R">>
                    [] register_size = TAG_64 -> <<"%", "F", "E", "R">>
                    [] OTHER -> <<>>
    IN  IF prefix = <<>> THEN Decoded(output, rest, TRUE, FALSE)
        ELSE Decoded(Append(output, prefix \o ToDec(FromInt(register_index))),
                     rest, FALSE, FALSE)

\* decode_constant that prints num where it should print signed_num
decode_constant_unsigned(output, input) ==
    IF Len(input) < 9 THEN Decoded(output, <<>>, FALSE, TRUE)
    ELSE
    LET sign == input[1]
        num  == SubSeq(input, 2, 9)
        text == IF sign # 0 THEN ToDec(num) ELSE <<"0", "x">> \o ToHex(num)
    IN  Decoded(Append(output, <<"$", "(">> \o text \o <<")">>),
                Drop(input, 9), FALSE, FALSE)

decode_constant(output, input) ==
    IF Len(input) < 9 THEN Decoded(output, <<>>, FALSE, TRUE)
    ELSE
    LET sign == input[1]
        num  == SubSeq(input, 2, 9)
        text == IF sign # 0 THEN ToSignedDec(num) ELSE <<"0", "x">> \o ToHex(num)
    IN  Decoded(Append(output, <<"$", "(">> \o text \o <<")">>),
                Drop(input, 9), FALSE, FALSE)

decode_each_parameter(output, input) ==
    IF Len(input) < 1 THEN Decoded(output, <<>>, FALSE, TRUE)
    ELSE IF input[1] = REGISTER_PREFIX THEN decode_register(output, Drop(input, 1))
    ELSE IF input[1] = CONSTANT_PREFIX THEN decode_constant(output, Drop(input, 1))
    ELSE Decoded(output, Drop(input, 1), TRUE, FALSE)

decode_memory(output, input) ==
    IF Len(input) < 1 THEN Decoded(output, <<>>, FALSE, TRUE)
    ELSE
    LET ratio == input[1]
        ret == CASE ratio = 1  -> <<"*", "1", "(">>
                 [] ratio = 2  -> <<"*", "2", "(">>
                 [] ratio = 4  -> <<"*", "4", "(">>
                 [] ratio = 8  -> <<"*", "8", "(">>
                 [] ratio = 22 -> <<"*", "1", "6", "(">>
                 [] OTHER -> <<>>
    IN  IF ret = <<>> THEN Decoded(output, Drop(input, 1), TRUE, FALSE) ELSE
        Let(decode_each_parameter(Append(output, ret), Drop(input, 1)), LAMBDA p1 :
          IF p1.thrown \/ p1.oob THEN p1 ELSE
        Let(decode_each_parameter(Append(p1.output, <<",", " ">>), p1.input), LAMBDA p2 :
          IF p2.thrown \/ p2.oob THEN p2 ELSE
        Let(decode_each_parameter(Append(p2.output, <<",", " ">>), p2.input), LAMBDA p3 :
          IF p3.thrown \/ p3.oob THEN p3
          ELSE Decoded(Append(p3.output, <<")">>), p3.input, FALSE, FALSE))))

decode(output, input) ==
    IF Len(input) < 1 THEN Decoded(output, <<>>, FALSE, TRUE)
    ELSE IF input[1] = REGISTER_PREFIX THEN decode_register(output, Drop(input, 1))
    ELSE IF input[1] = CONSTANT_PREFIX THEN decode_constant(output, Drop(input, 1))
    ELSE IF input[1] = MEMORY_PREFIX THEN decode_memory(output, Drop(input, 1))
    ELSE Decoded(output, Drop(input, 1), TRUE, FALSE)

(***************************************************************************)
(* src/sysdarft_processor/cpu: the processor                               *)
(*                                                                         *)
(* Memory is a map from 64-bit addresses to bytes that holds the bytes     *)
(* written so far; every other byte is zero.  The instruction pointer is   *)
(* kept as a number (the model never moves it beyond 2^31).                *)
(***************************************************************************)
BIOS_START == 792576
INT_ILLEGAL_INSTRUCTION == 0
TAG_FP == 252

\* control registers of the 64-bit class
R_StackPointer == 17
R_DataPointer == 20
R_ExtendedSegmentPointer == 22

ReadByte(m, a) == IF a \in DOMAIN m THEN m[a] ELSE 0

\* processor::get_memory(address, buffer, length)
get_memory(m, address, length) ==
    [i \in 1..8 |-> IF i <= length THEN ReadByte(m, Add64(address, FromInt(i - 1))) ELSE 0]

\* processor::write_memory(address, buffer, length)
write_memory(m, address, val, length) ==
    LET cells == {Add64(address, FromInt(i - 1)) : i \in 1..length}
    IN  [a \in DOMAIN m \cup cells |->
            IF a \in cells
            THEN val[CHOOSE i \in 1..length : Add64(address, FromInt(i - 1)) = a]
            ELSE m[a]]

\* processor::pop<8>() and pop<64>() at instruction pointer p: the value read;
\* the caller advances p by 1 or 8
pop_8(m, p) == ReadByte(m, FromInt(p))
pop_64(m, p) == [i \in 1..8 |-> ReadByte(m, FromInt(p + i - 1))]

\* The register file: the fields of CPU.Registers that the accessors name.
RegisterFields ==
    ({"R", "ExtendedRegister", "HalfExtendedRegister"} \X (0..7))
    \cup ({"FullyExtendedRegister"} \X (0..15))
    \cup ({"StackPointer", "DataPointer", "ExtendedSegmentPointer"} \X {0})

NoField == <<"none", 0>>

\* (uint8_t)reg, (uint16_t)reg, (uint32_t)reg: the low bytes, held zero-extended
Narrow(reg, bytes) == [i \in 1..8 |-> IF i <= bytes THEN reg[i] ELSE 0]

\* the field the switch of do_get_register reaches, NoField where it asserts
get_register_field(TargetWidth, RegisterIndex) ==
    IF TargetWidth = TAG_8 /\ RegisterIndex \in 0..7 THEN <<"R", RegisterIndex>>
    ELSE IF TargetWidth = TAG_16 /\ RegisterIndex \in 0..7
    THEN <<"ExtendedRegister", RegisterIndex>>
    ELSE IF TargetWidth = TAG_32 /\ RegisterIndex \in 0..7
    THEN <<"HalfExtendedRegister", RegisterIndex>>
    ELSE IF TargetWidth = TAG_64 /\ RegisterIndex \in 0..7
    THEN <<"FullyExtendedRegister", RegisterIndex>>
    ELSE IF TargetWidth = TAG_64 /\ RegisterIndex = R_StackPointer
    THEN <<"StackPointer", 0>>
    ELSE IF TargetWidth = TAG_64 /\ RegisterIndex = R_DataPointer
    THEN <<"DataPointer", 0>>
    ELSE IF TargetWidth = TAG_64 /\ RegisterIndex = R_ExtendedSegmentPointer
    THEN <<"ExtendedSegmentPointer", 0>>
    ELSE NoField

\* the field the switch of do_set_register reaches, NoField where it asserts
set_register_field(TargetWidth, RegisterIndex) ==
    IF TargetWidth = TAG_8 /\ RegisterIndex \in 0..7 THEN <<"R", RegisterIndex>>
    ELSE IF TargetWidth = TAG_16 /\ RegisterIndex \in 0..7
    THEN <<"ExtendedRegister", RegisterIndex>>
    ELSE IF TargetWidth = TAG_32 /\ RegisterIndex \in 0..7
    THEN <<"HalfExtendedRegister", RegisterIndex>>
    ELSE IF TargetWidth = TAG_64 /\ RegisterIndex \in 0..15
    THEN <<"FullyExtendedRegister", RegisterIndex>>
    ELSE IF TargetWidth = TAG_64 /\ RegisterIndex = R_StackPointer
    THEN <<"StackPointer", 0>>
    ELSE IF TargetWidth = TAG_64 /\ RegisterIndex = R_DataPointer
    THEN <<"DataPointer", 0>>
    ELSE IF TargetWidth = TAG_64 /\ RegisterIndex = R_ExtendedSegmentPointer
    THEN <<"ExtendedSegmentPointer", 0>>
    ELSE NoField

\* the width in bytes of the field's type
FieldBytes(field) ==
    CASE field[1] = "R" -> 1
      [] field[1] = "ExtendedRegister" -> 2
      [] field[1] = "HalfExtendedRegister" -> 4
      [] OTHER -> 8

\* do_get_register whose default cases return 0 and throw nothing
do_get_register_lenient(t, regs) ==
    LET field == get_register_field(t.TargetWidth, t.RegisterIndex)
    IN  IF field = NoField THEN [thrown |-> FALSE, value |-> Zero64]
        ELSE [thrown |-> FALSE, value |-> regs[field]]

\* do_get_register: the value returned, or the IllegalInstruction thrown
do_get_register(t, regs) ==
    LET field == get_register_field(t.TargetWidth, t.RegisterIndex)
    IN  IF field = NoField THEN [thrown |-> TRUE, value |-> Zero64]
        ELSE [thrown |-> FALSE, value |-> regs[field]]

\* do_set_register: the register file after it, or the IllegalInstruction thrown
do_set_register(t, regs, reg) ==
    LET field == set_register_field(t.TargetWidth, t.RegisterIndex)
    IN  IF field = NoField THEN [thrown |-> TRUE, regs |-> regs]
        ELSE [thrown |-> FALSE,
              regs   |-> [regs EXCEPT ![field] = Narrow(reg, FieldBytes(field))]]

\* A Target: the fields of the object, the instruction pointer where its
\* decoding stands, whether decoding threw, and the locals of
\* do_setup_memory_info.  TargetWidth of a fresh object is not initialised.
FreshTarget(p) ==
    [thrown |-> FALSE, ip |-> p, TargetType |-> "unset", TargetWidth |-> 0,
     RegisterIndex |-> 0, ConstantValue |-> Zero64, MemoryAddress |-> Zero64,
     BaseAddress |-> Zero64, Offset1 |-> Zero64, Offset2 |-> Zero64, Ratio |-> 0]

do_setup_register_info(t, m) ==
    LET width == pop_8(m, t.ip)
        register_index == pop_8(m, t.ip + 1)
    IN  [t EXCEPT !.ip = t.ip + 2,
                  !.RegisterIndex = register_index,
                  !.TargetType = "TypeRegister",
                  !.TargetWidth = width,
                  !.thrown = width \notin {TAG_8, TAG_16, TAG_32, TAG_64, TAG_FP}]

do_setup_constant_info(t, m) ==
    IF pop_8(m, t.ip) # TAG_64 THEN [t EXCEPT !.ip = t.ip + 1, !.thrown = TRUE]
    ELSE [t EXCEPT !.ip = t.ip + 9,
                   !.TargetType = "TypeConstant",
                   !.ConstantValue = pop_64(m, t.ip + 1)]

\* get_target_content_in_u64bit_t
get_target_content_in_u64bit_t(t, regs, m) ==
    CASE t.TargetType = "TypeRegister" -> do_get_register(t, regs)
      [] t.TargetType = "TypeConstant" -> [thrown |-> FALSE, value |-> t.ConstantValue]
      [] t.TargetType = "TypeMemory" ->
            [thrown |-> FALSE, value |-> get_memory(m, t.MemoryAddress, 8)]
      [] OTHER -> [thrown |-> TRUE, value |-> Zero64]

\* a sub-operand of do_setup_memory_info without the assertion on the
\* prefix: whatever is no register is decoded as a constant
decode_sub_operand_unasserted(t, regs, m) ==
    LET Prefix == pop_8(m, t.ip)
        t1 == [t EXCEPT !.ip = t.ip + 1]
    IN  Let(IF Prefix = REGISTER_PREFIX THEN do_setup_register_info(t1, m)
            ELSE do_setup_constant_info(t1, m),
            LAMBDA t2 :
              IF t2.thrown THEN [t |-> t2, value |-> Zero64]
              ELSE Let(get_target_content_in_u64bit_t(t2, regs, m),
                       LAMBDA got : [t     |-> [t2 EXCEPT !.thrown = got.thrown],
                                     value |-> got.value]))

\* one sub-operand of do_setup_memory_info: the prefix, its assertion, the
\* decoding and the read of its value
decode_sub_operand(t, regs, m) ==
    LET Prefix == pop_8(m, t.ip)
        t1 == [t EXCEPT !.ip = t.ip + 1]
    IN  IF Prefix # REGISTER_PREFIX /\ Prefix # CONSTANT_PREFIX
        THEN [t |-> [t1 EXCEPT !.thrown = TRUE], value |-> Zero64]
        ELSE Let(IF Prefix = REGISTER_PREFIX THEN do_setup_register_info(t1, m)
                 ELSE do_setup_constant_info(t1, m),
                 LAMBDA t2 :
                   IF t2.thrown THEN [t |-> t2, value |-> Zero64]
                   ELSE Let(get_target_content_in_u64bit_t(t2, regs, m),
                            LAMBDA got : [t     |-> [t2 EXCEPT !.thrown = got.thrown],
                                          value |-> got.value]))

do_setup_memory_info(t, regs, m) ==
    LET width == pop_8(m, t.ip)
    IN  Let(decode_sub_operand([t EXCEPT !.ip = t.ip + 1], regs, m), LAMBDA b :
          IF b.t.thrown THEN b.t ELSE
        Let(decode_sub_operand(b.t, regs, m), LAMBDA o1 :
          IF o1.t.thrown THEN o1.t ELSE
        Let(decode_sub_operand(o1.t, regs, m), LAMBDA o2 :
          IF o2.t.thrown THEN o2.t ELSE
          LET Ratio == pop_8(m, o2.t.ip)
          IN  [o2.t EXCEPT !.ip = o2.t.ip + 1,
                           !.TargetType = "TypeMemory",
                           !.MemoryAddress =
                               MulSmall64(Add64(Add64(b.value, o1.value), o2.value), Ratio),
                           !.TargetWidth = width,
                           !.BaseAddress = b.value,
                           !.Offset1 = o1.value,
                           !.Offset2 = o2.value,
                           !.Ratio = Ratio])))

do_decode_via_prefix(t, prefix, regs, m) ==
    IF prefix = REGISTER_PREFIX THEN do_setup_register_info(t, m)
    ELSE IF prefix = CONSTANT_PREFIX THEN do_setup_constant_info(t, m)
    ELSE IF prefix = MEMORY_PREFIX THEN do_setup_memory_info(t, regs, m)
    ELSE [t EXCEPT !.thrown = TRUE]

\* processor::Target::Target(CPU) with the instruction pointer at p
Target(p, regs, m) ==
    do_decode_via_prefix(FreshTarget(p + 1), pop_8(m, p), regs, m)

\* The constructor initialises no member: TargetWidth holds whatever the
\* storage held until a decoder assigns it, and do_setup_constant_info never
\* does.  TargetOn is the Target built on storage that held width.
UninitialisedWidths == {0, TAG_8, TAG_64}

TargetOn(p, regs, m, width) ==
    do_decode_via_prefix([FreshTarget(p + 1) EXCEPT !.TargetWidth = width],
                         pop_8(m, p), regs, m)

\* set_target_content_in_u64bit_t whose TypeConstant case throws nothing and
\* falls through to the write of TypeMemory
set_target_content_falling_through(t, regs, m, val) ==
    LET actual_width == CASE t.TargetWidth = TAG_8  -> 1
                          [] t.TargetWidth = TAG_16 -> 2
                          [] t.TargetWidth = TAG_32 -> 4
                          [] t.TargetWidth = TAG_64 -> 8
                          [] OTHER -> 0
        same == [thrown |-> TRUE, regs |-> regs, mem |-> m]
    IN  IF actual_width = 0 THEN same
        ELSE IF t.TargetType = "TypeRegister"
        THEN Let(do_set_register(t, regs, val),
                 LAMBDA r : [thrown |-> r.thrown, regs |-> r.regs, mem |-> m])
        ELSE IF t.TargetType \in {"TypeConstant", "TypeMemory"}
        THEN [thrown |-> FALSE, regs |-> regs,
              mem |-> write_memory(m, t.MemoryAddress, val, actual_width)]
        ELSE same

\* set_target_content_in_u64bit_t that hands write_memory sizeof(val) in the
\* place of actual_width
set_target_content_all_bytes(t, regs, m, val) ==
    LET actual_width == CASE t.TargetWidth = TAG_8  -> 1
                          [] t.TargetWidth = TAG_16 -> 2
                          [] t.TargetWidth = TAG_32 -> 4
                          [] t.TargetWidth = TAG_64 -> 8
                          [] OTHER -> 0
        same == [thrown |-> TRUE, regs |-> regs, mem |-> m]
    IN  IF actual_width = 0 THEN same
        ELSE IF t.TargetType = "TypeRegister"
        THEN Let(do_set_register(t, regs, val),
                 LAMBDA r : [thrown |-> r.thrown, regs |-> r.regs, mem |-> m])
        ELSE IF t.TargetType = "TypeMemory"
        THEN [thrown |-> FALSE, regs |-> regs,
              mem |-> write_memory(m, t.MemoryAddress, val, 8)]
        ELSE same

\* set_target_content_in_u64bit_t: registers and memory after it, or thrown
set_target_content_in_u64bit_t(t, regs, m, val) ==
    LET actual_width == CASE t.TargetWidth = TAG_8  -> 1
                          [] t.TargetWidth = TAG_16 -> 2
                          [] t.TargetWidth = TAG_32 -> 4
                          [] t.TargetWidth = TAG_64 -> 8
                          [] OTHER -> 0
        same == [thrown |-> TRUE, regs |-> regs, mem |-> m]
    IN  IF actual_width = 0 THEN same
        ELSE IF t.TargetType = "TypeRegister"
        THEN Let(do_set_register(t, regs, val),
                 LAMBDA r : [thrown |-> r.thrown, regs |-> r.regs, mem |-> m])
        ELSE IF t.TargetType = "TypeMemory"
        THEN [thrown |-> FALSE, regs |-> regs,
              mem |-> write_memory(m, t.MemoryAddress, val, actual_width)]
        ELSE same

(***************************************************************************)
(* src/sysdarft_processor/cpu/instruction_executor.cpp                     *)
(***************************************************************************)
TOTAL_ENTRIES == 512
INCREMENT == 8
START_ADDRESS == 655360

\* std::map::insert: an entry is added only where the key has none
map_insert(table, key, value) ==
    IF key \in DOMAIN table THEN table
    ELSE [k \in DOMAIN table \cup {key} |-> IF k = key THEN value ELSE table[k]]

\* processor::soft_interruption_ready(int_code): the body is empty
soft_interruption_ready(p, int_code) == p

\* a nop that leaves a mark in R0
nop_marking(p, regs, m) ==
    [thrown |-> FALSE, fault |-> "none", ip |-> p,
     regs |-> [regs EXCEPT ![<<"R", 0>>] = FromInt(1)], mem |-> m]

\* __InstructionExecutorType__::nop
nop(p, regs, m) ==
    [thrown |-> FALSE, fault |-> "none", ip |-> p, regs |-> regs, mem |-> m]

\* __InstructionExecutorType__::add: width, two operands, then
\* operand1 = operand1.get<uint64_t>() + operand2.get<uint64_t>().
\* Nothing catches what the decoding or the accesses throw; fault says where
\* the exception that left add came from.
add(p, regs, m) ==
    Let(Target(p + 1, regs, m), LAMBDA operand1 :
      IF operand1.thrown
      THEN [thrown |-> TRUE, fault |-> "decode", ip |-> operand1.ip,
            regs |-> regs, mem |-> m] ELSE
    Let(Target(operand1.ip, regs, m), LAMBDA operand2 :
      IF operand2.thrown
      THEN [thrown |-> TRUE, fault |-> "decode", ip |-> operand2.ip,
            regs |-> regs, mem |-> m] ELSE
    Let(get_target_content_in_u64bit_t(operand1, regs, m), LAMBDA v1 :
    Let(get_target_content_in_u64bit_t(operand2, regs, m), LAMBDA v2 :
      IF v1.thrown \/ v2.thrown
      THEN [thrown |-> TRUE, fault |-> "access", ip |-> operand2.ip,
            regs |-> regs, mem |-> m] ELSE
    Let(set_target_content_in_u64bit_t(operand1, regs, m, Add64(v1.value, v2.value)),
        LAMBDA w : [thrown |-> w.thrown,
                    fault  |-> IF w.thrown THEN "access" ELSE "none",
                    ip |-> operand2.ip, regs |-> w.regs, mem |-> w.mem])))))

\* processor::operation: pop<64>() the opcode and dispatch on it
operation(p, regs, m) ==
    LET opcode == pop_64(m, p)
    IN  IF opcode = FromInt(0) THEN nop(p + 8, regs, m)
        ELSE IF opcode = FromInt(1) THEN add(p + 8, regs, m)
        ELSE [thrown |-> FALSE, fault |-> "none",
              ip     |-> soft_interruption_ready(p + 8, INT_ILLEGAL_INSTRUCTION),
              regs   |-> regs, mem |-> m]

(***************************************************************************)
(* The processor as a state machine.  Static initialisation fills the      *)
(* interrupt vector table; then a program is written at BIOS_START, as the *)
(* decoder test does, and the operations run on it.  An exception that     *)
(* leaves an operation ends the run: nothing in the sources catches it.    *)
(***************************************************************************)
\* the assembler tool's variables (its actions are further down)
VARIABLES
    inp,            \* the operand text handed to encode_target
    encode_buffer,  \* std::vector<uint8_t>
    decode_buffer,  \* std::vector<std::string>: the output fragments
    orig,           \* the byte stream handed to decode, when one was
    cpc             \* where the tool is

codec_vars == <<inp, encode_buffer, decode_buffer, orig, cpc>>

VARIABLES
    interruption_vector_address_table_mutex_,  \* "unlocked" or "locked"
    interruption_vector_address_table,
    vector_i,       \* the loop counter of __initialize_vector__
    Registers,      \* CPU.Registers
    ip,             \* the instruction pointer
    mem,            \* the memory
    target,         \* the Target constructed last
    got,            \* what the last read through target returned
    cpu_pc,         \* "static_init", "constructed", "running", "crashed"
    program,        \* the program written at BIOS_START
    last,           \* the last operation: its name, argument and the state before it
    written,        \* the value written through target since it was constructed
    steps           \* operations run so far

cpu_vars == <<interruption_vector_address_table_mutex_,
              interruption_vector_address_table, vector_i, Registers, ip, mem,
              target, got, cpu_pc, program, last, written, steps>>

VARIABLES
    RegisterAccessMutex,  \* CPU.RegisterAccessMutex: 0, or the thread that holds it
    threads               \* each thread: where it is in its call and what the call is

thread_vars == <<RegisterAccessMutex, threads>>

VARIABLES
    base16          \* process_base16: where it is, its argument, input and data

MaxSteps == 4

\* the values the operations write
Values == {FromInt(511), Max64, <<0, 0, 0, 0, 1, 0, 0, 0>>}

\* the interrupt codes raised directly
IntCodes == {0, 1, 255, 511}

\* operand texts whose assembled bytes the processor decodes
AsmTexts == {
    <<"%", "R", "7">>,
    <<"%", "H", "E", "R", "4">>,
    <<"%", "F", "E", "R", "0">>,
    <<"$", "(", "1", ")">>,
    <<"$", "(", "-", "1", ")">>,
    <<"*", "1", "(", "$", "(", "1", ")", ",", "$", "(", "2", ")", ",", "$", "(", "3", ")", ")">>,
    <<"*", "2", "(", "%", "F", "E", "R", "0", ",", "%", "F", "E", "R", "1", ",", "%", "F", "E", "R", "2", ")">>,
    <<"*", "1", "6", "(", "%", "F", "E", "R", "0", ",", "$", "(", "2", ")", ",", "%", "F", "E", "R", "1", ")">> }

Assembled(t) == encode_target(<<>>, t).buffer

AsmPrograms ==
    {[kind |-> "asm", records |-> <<Assembled(a), Assembled(b)>>] :
        a \in AsmTexts, b \in AsmTexts}

\* operand records in the layout the processor's decoder reads
CpuRegisterRecords ==
    {<<REGISTER_PREFIX, w, i>> :
        w \in {TAG_8, TAG_16, TAG_32, TAG_64, TAG_FP, 0},
        i \in (0..15) \cup {R_StackPointer, R_DataPointer, R_ExtendedSegmentPointer, 16, 255}}

CpuConstant(v) == <<CONSTANT_PREFIX, TAG_64>> \o v

CpuSubRecords ==
    {<<REGISTER_PREFIX, TAG_64, 0>>, <<REGISTER_PREFIX, TAG_64, 8>>,
     <<REGISTER_PREFIX, TAG_8, 0>>,
     CpuConstant(FromInt(3)), CpuConstant(Max64), <<MEMORY_PREFIX, TAG_64>>}

CpuMemoryRecords ==
    {<<MEMORY_PREFIX, TAG_64>> \o a \o b \o c \o <<r>> :
        a \in CpuSubRecords,
        b \in {<<REGISTER_PREFIX, TAG_64, 0>>, CpuConstant(FromInt(3))},
        c \in {CpuConstant(FromInt(3)), CpuConstant(Max64)},
        r \in {1, 2, 4, 8, 22, 16}}
    \cup
    {<<MEMORY_PREFIX, TAG_8>> \o a \o a \o a \o <<r>> :
        a \in {CpuConstant(FromInt(3))}, r \in {1, 22}}
    \cup
    {<<MEMORY_PREFIX, TAG_64>> \o a \o <<REGISTER_PREFIX, w, 0>> \o b \o <<1>> :
        a \in {CpuConstant(FromInt(3))},
        w \in {TAG_16, TAG_32, TAG_FP},
        b \in {CpuConstant(FromInt(3)), <<REGISTER_PREFIX, TAG_32, 1>>}}
    \cup
    {<<MEMORY_PREFIX, w>> \o CpuConstant(FromInt(BIOS_START)) \o z \o z \o <<1>> :
        w \in {TAG_8, TAG_16, TAG_32, TAG_64}, z \in {CpuConstant(Zero64)}}
    \cup
    {<<MEMORY_PREFIX, TAG_64>> \o a \o b \o c \o <<1>> :
        a \in {CpuConstant(FromInt(3))},
        b \in {CpuConstant(FromInt(3))} \cup {<<q, TAG_64, 0>> : q \in {0, MEMORY_PREFIX, 4, 255}},
        c \in {<<q, TAG_64, 0>> : q \in {MEMORY_PREFIX, 255}}}

CpuPrograms ==
    {[kind |-> "cpu", records |-> <<r>>] :
        r \in CpuRegisterRecords \cup {CpuConstant(FromInt(3)), <<CONSTANT_PREFIX, 0>> \o FromInt(3)}}
    \cup
    {[kind |-> "cpu", records |-> <<<<REGISTER_PREFIX, TAG_64, 0>>, r>>] :
        r \in CpuMemoryRecords}

\* instructions: an opcode of 64 bits, then what the opcode's handler pops;
\* the last ones are an opcode other than NOP's and ADD's with a width and
\* one register operand, as "push .64bit <%FER0>" and "pop .64bit <%FER0>"
\* of the decoder test are laid out
Opcode(n) == FromInt(n)

Instructions ==
    {Opcode(0), Opcode(2), Opcode(255), Max64}
    \cup {Opcode(1) \o <<w>> \o a \o b :
            w \in {TAG_8, TAG_64},
            a \in {<<REGISTER_PREFIX, TAG_8, 0>>, <<REGISTER_PREFIX, TAG_64, 1>>,
                   <<REGISTER_PREFIX, TAG_64, 8>>, CpuConstant(FromInt(3)), <<4>>},
            b \in {<<REGISTER_PREFIX, TAG_8, 1>>, CpuConstant(Max64),
                   CpuConstant(FromInt(3)), <<CONSTANT_PREFIX, 0>> \o FromInt(3)}}
    \cup {Opcode(n) \o <<TAG_64>> \o <<REGISTER_PREFIX, TAG_64, 0>> : n \in {2, 255}}

CodePrograms ==
    {[kind |-> "code", records |-> <<a, b>>] : a \in Instructions, b \in {Opcode(0), Opcode(2)}}

Programs == AsmPrograms \cup CpuPrograms \cup CodePrograms

NoProgram == [kind |-> "none", records |-> <<>>]

\* what `last` records of an operation: its name, its argument (the interrupt
\* code or the opcode), the instruction pointer and registers before it,
\* and the memory before it, whether an exception left it and where that came
\* from
Record(op, arg, opcode, thrown, fault) ==
    [op |-> op, arg |-> arg, opcode |-> opcode, ip0 |-> ip, regs0 |-> Registers,
     mem0 |-> mem, thrown |-> thrown, fault |-> fault]

NoOperation ==
    [op |-> "none", arg |-> 0, opcode |-> Zero64, ip0 |-> 0,
     regs0 |-> [f \in RegisterFields |-> Zero64], mem0 |-> [a \in {} |-> 0],
     thrown |-> FALSE, fault |-> "none"]

CpuInit ==
    /\ interruption_vector_address_table_mutex_ = "unlocked"
    /\ interruption_vector_address_table = [k \in {} |-> 0]
    /\ vector_i = 0
    /\ Registers = [f \in RegisterFields |-> Zero64]
    /\ ip = BIOS_START
    /\ mem = [a \in {} |-> 0]
    /\ target = FreshTarget(0)
    /\ got = Zero64
    /\ cpu_pc = "static_init"
    /\ program = NoProgram
    /\ last = NoOperation
    /\ written = <<>>
    /\ steps = 0

\* the loop with the bound i <= TOTAL_ENTRIES: one entry too many
InitializeVectorInclusive ==
    /\ cpu_pc = "static_init"
    /\ interruption_vector_address_table_mutex_ = "locked"
    /\ vector_i <= TOTAL_ENTRIES
    /\ interruption_vector_address_table_mutex_' =
           IF vector_i + 1 <= TOTAL_ENTRIES THEN "locked" ELSE "unlocked"
    /\ interruption_vector_address_table' =
           map_insert(interruption_vector_address_table, vector_i,
                      START_ADDRESS + vector_i * INCREMENT)
    /\ vector_i' = vector_i + 1
    /\ cpu_pc' = IF vector_i + 1 <= TOTAL_ENTRIES THEN "static_init" ELSE "constructed"
    /\ UNCHANGED <<Registers, ip, mem, target, got, program, last, written, steps>>
    /\ UNCHANGED <<codec_vars, thread_vars, base16>>

\* __initialize_vector__, line 16: the lock_guard is constructed
InitializeVectorLock ==
    /\ cpu_pc = "static_init"
    /\ interruption_vector_address_table_mutex_ = "unlocked"
    /\ interruption_vector_address_table_mutex_' = "locked"
    /\ UNCHANGED <<interruption_vector_address_table, vector_i, Registers, ip, mem,
                   target, got, cpu_pc, program, last, written, steps>>
    /\ UNCHANGED <<codec_vars, thread_vars, base16>>

\* __initialize_vector__: one turn of the loop; after the last one the
\* constructor returns and the lock_guard is destroyed
InitializeVector ==
    /\ cpu_pc = "static_init"
    /\ interruption_vector_address_table_mutex_ = "locked"
    /\ vector_i < TOTAL_ENTRIES
    /\ interruption_vector_address_table_mutex_' =
           IF vector_i + 1 < TOTAL_ENTRIES THEN "locked" ELSE "unlocked"
    /\ interruption_vector_address_table' =
           map_insert(interruption_vector_address_table, vector_i,
                      START_ADDRESS + vector_i * INCREMENT)
    /\ vector_i' = vector_i + 1
    /\ cpu_pc' = IF vector_i + 1 < TOTAL_ENTRIES THEN "static_init" ELSE "constructed"
    /\ UNCHANGED <<Registers, ip, mem, target, got, program, last, written, steps>>
    /\ UNCHANGED <<codec_vars, thread_vars, base16>>

\* CodeBase::CodeBase, lines 74-77: the buffer goes to memory at BIOS_START
WriteProgram ==
    /\ cpu_pc = "constructed"
    /\ \E prog \in Programs :
         /\ program' = prog
         /\ mem' = LET bytes == Concat(prog.records)
                   IN  [a \in {FromInt(BIOS_START + k - 1) : k \in 1..Len(bytes)} |->
                          bytes[CHOOSE k \in 1..Len(bytes) : FromInt(BIOS_START + k - 1) = a]]
    /\ cpu_pc' = "running"
    /\ UNCHANGED <<interruption_vector_address_table_mutex_,
                   interruption_vector_address_table, vector_i, Registers, ip,
                   target, got, last, written, steps>>
    /\ UNCHANGED <<codec_vars, thread_vars, base16>>

Stepping(kinds) ==
    /\ cpu_pc = "running"
    /\ program.kind \in kinds
    /\ steps < MaxSteps
    /\ steps' = steps + 1

\* pop_target() whose decoding stores the width it read in R0
PopTargetStoring ==
    /\ Stepping({"asm", "cpu"})
    /\ \E t \in {TargetOn(ip, Registers, mem, w) : w \in UninitialisedWidths} :
         /\ target' = t
         /\ ip' = t.ip
         /\ Registers' = [Registers EXCEPT ![<<"R", 0>>] = FromInt(t.TargetWidth)]
         /\ cpu_pc' = IF t.thrown THEN "crashed" ELSE "running"
         /\ last' = Record("pop_target", 0, Zero64, t.thrown,
                          IF t.thrown THEN "decode" ELSE "none")
    /\ written' = <<>>
    /\ UNCHANGED <<interruption_vector_address_table_mutex_,
                   interruption_vector_address_table, vector_i, mem, got, program>>
    /\ UNCHANGED <<codec_vars, thread_vars, base16>>

\* pop_target(): a Target is constructed at the instruction pointer
PopTarget ==
    /\ Stepping({"asm", "cpu"})
    /\ \E t \in {TargetOn(ip, Registers, mem, w) : w \in UninitialisedWidths} :
         /\ target' = t
         /\ ip' = t.ip
         /\ cpu_pc' = IF t.thrown THEN "crashed" ELSE "running"
         /\ last' = Record("pop_target", 0, Zero64, t.thrown,
                          IF t.thrown THEN "decode" ELSE "none")
    /\ written' = <<>>
    /\ UNCHANGED <<interruption_vector_address_table_mutex_,
                   interruption_vector_address_table, vector_i, Registers, mem,
                   got, program>>
    /\ UNCHANGED <<codec_vars, thread_vars, base16>>

\* set_target_content_in_u64bit_t(val) on the Target constructed last
SetTargetContent ==
    /\ Stepping({"asm", "cpu"})
    /\ target.TargetType # "unset"
    /\ \E val \in Values :
       \E r \in {set_target_content_in_u64bit_t(target, Registers, mem, val)} :
         /\ Registers' = r.regs
         /\ mem' = r.mem
         /\ cpu_pc' = IF r.thrown THEN "crashed" ELSE "running"
         /\ written' = IF r.thrown THEN written ELSE <<val>>
         /\ last' = Record("set", 0, Zero64, r.thrown,
                          IF r.thrown THEN "access" ELSE "none")
    /\ UNCHANGED <<interruption_vector_address_table_mutex_,
                   interruption_vector_address_table, vector_i, ip, target, got, program>>
    /\ UNCHANGED <<codec_vars, thread_vars, base16>>

\* get_target_content_in_u64bit_t() on the Target constructed last
GetTargetContent ==
    /\ Stepping({"asm", "cpu"})
    /\ target.TargetType # "unset"
    /\ \E r \in {get_target_content_in_u64bit_t(target, Registers, mem)} :
         /\ got' = IF r.thrown THEN got ELSE r.value
         /\ cpu_pc' = IF r.thrown THEN "crashed" ELSE "running"
         /\ last' = Record("get", 0, Zero64, r.thrown,
                          IF r.thrown THEN "access" ELSE "none")
    /\ UNCHANGED <<interruption_vector_address_table_mutex_,
                   interruption_vector_address_table, vector_i, Registers, ip, mem,
                   target, program, written>>
    /\ UNCHANGED <<codec_vars, thread_vars, base16>>

\* processor::operation(timestamp)
Operation ==
    /\ Stepping({"code"})
    /\ \E r \in {operation(ip, Registers, mem)} :
         /\ ip' = r.ip
         /\ Registers' = r.regs
         /\ mem' = r.mem
         /\ cpu_pc' = IF r.thrown THEN "crashed" ELSE "running"
         /\ last' = Record("operation", 0, pop_64(mem, ip), r.thrown, r.fault)
    /\ UNCHANGED <<interruption_vector_address_table_mutex_,
                   interruption_vector_address_table, vector_i, target, got,
                   program, written>>
    /\ UNCHANGED <<codec_vars, thread_vars, base16>>

\* soft_interruption_ready that registers the instruction pointer as the
\* vector of int_code
SoftInterruptionReadyRegistering ==
    /\ Stepping({"code"})
    /\ \E int_code \in IntCodes :
         /\ ip' = soft_interruption_ready(ip, int_code)
         /\ interruption_vector_address_table' =
                [k \in DOMAIN interruption_vector_address_table \cup {int_code} |->
                    IF k = int_code THEN ip ELSE interruption_vector_address_table[k]]
         /\ last' = Record("soft_interruption_ready", int_code, Zero64, FALSE, "none")
    /\ UNCHANGED <<interruption_vector_address_table_mutex_, vector_i, Registers, mem,
                   target, got, cpu_pc, program, written>>
    /\ UNCHANGED <<codec_vars, thread_vars, base16>>

\* processor::soft_interruption_ready(int_code), called with any code
SoftInterruptionReady ==
    /\ Stepping({"code"})
    /\ \E int_code \in IntCodes :
         /\ ip' = soft_interruption_ready(ip, int_code)
         /\ last' = Record("soft_interruption_ready", int_code, Zero64, FALSE, "none")
    /\ UNCHANGED <<interruption_vector_address_table_mutex_,
                   interruption_vector_address_table, vector_i, Registers, mem,
                   target, got, cpu_pc, program, written>>
    /\ UNCHANGED <<codec_vars, thread_vars, base16>>

CpuNext ==
    \/ InitializeVectorLock
    \/ InitializeVector
    \/ WriteProgram
    \/ PopTarget
    \/ SetTargetContent
    \/ GetTargetContent
    \/ Operation
    \/ SoftInterruptionReady

(***************************************************************************)
(* Threads that read and write registers through Targets.  Each call of    *)
(* do_get_register or do_set_register constructs a std::lock_guard on      *)
(* CPU.RegisterAccessMutex, runs its switch and destroys the guard when it *)
(* returns or throws.  An access that is not synchronised would be a data  *)
(* race, one of whose outcomes is a value stored or loaded in part; the    *)
(* load and the store are therefore taken in two halves.                   *)
(***************************************************************************)
Threads == {1, 2}

\* a Target of TypeRegister for the 64-bit register of index i
RegisterTarget(i) ==
    [FreshTarget(0) EXCEPT !.TargetType = "TypeRegister", !.TargetWidth = TAG_64,
                           !.RegisterIndex = i]

\* FER0, and an index no case of either switch names
ThreadTargets == {RegisterTarget(0), RegisterTarget(16)}

\* the low four bytes of new over the high four bytes of old
HalfStored(old, new) == [i \in 1..8 |-> IF i <= 4 THEN new[i] ELSE old[i]]

ThreadInit ==
    /\ RegisterAccessMutex = 0
    /\ threads = [t \in Threads |->
                    [pc |-> "idle", op |-> "none", target |-> RegisterTarget(0),
                     val |-> Zero64, value |-> Zero64, thrown |-> FALSE,
                     add |-> "none", addend |-> Zero64, adds |-> 0]]

\* the ADDs a thread executes at most, and the constants they add
MaxAdds == 1

Addends == {FromInt(1)}

\* a thread calls do_get_register() or do_set_register(reg) on a Target, or
\* executes add() with the Target as operand1 and the constant reg as
\* operand2: operand1 = operand1.get<uint64_t>() + operand2.get<uint64_t>()
\* starts with the read of operand1.  The field add is "read" and "write"
\* while an ADD runs and "done" from its return until any thread makes
\* another call.
ThreadCalls ==
    /\ \E t \in Threads, tg \in ThreadTargets, op \in {"get", "set", "add"},
          reg \in Values \cup Addends :
         /\ threads[t].pc = "idle"
         /\ op = "add" => reg \in Addends /\ threads[t].adds < MaxAdds
         /\ op # "add" => reg \in Values
         /\ threads' = [u \in Threads |->
                          IF u = t
                          THEN [pc |-> "lock_guard", op |-> IF op = "add" THEN "get" ELSE op,
                                target |-> tg,
                                val |-> IF op = "set" THEN reg ELSE Zero64,
                                value |-> Zero64, thrown |-> FALSE,
                                add |-> IF op = "add" THEN "read" ELSE "none",
                                addend |-> IF op = "add" THEN reg ELSE Zero64,
                                adds |-> threads[t].adds + IF op = "add" THEN 1 ELSE 0]
                          ELSE [threads[u] EXCEPT
                                  !.add = IF @ = "done" THEN "none" ELSE @]]
    /\ UNCHANGED <<RegisterAccessMutex, codec_vars, cpu_vars, base16>>

\* a lock_guard that is constructed without waiting for the mutex
LockGuardNotWaiting ==
    /\ \E t \in Threads :
         /\ threads[t].pc = "lock_guard"
         /\ RegisterAccessMutex' = t
         /\ threads' = [threads EXCEPT ![t].pc = "switch"]
    /\ UNCHANGED <<codec_vars, cpu_vars, base16>>

\* std::lock_guard<std::mutex> lock(CPU.RegisterAccessMutex): the thread
\* goes on when it has got the mutex
LockGuard ==
    /\ \E t \in Threads :
         /\ threads[t].pc = "lock_guard"
         /\ RegisterAccessMutex = 0
         /\ RegisterAccessMutex' = t
         /\ threads' = [threads EXCEPT ![t].pc = "switch"]
    /\ UNCHANGED <<codec_vars, cpu_vars, base16>>

\* do_get_register: the switch; the first half of the register is loaded
\* or the default case throws
DoGetRegister ==
    /\ \E t \in Threads :
         /\ threads[t].pc = "switch"
         /\ threads[t].op = "get"
         /\ \E r \in {do_get_register(threads[t].target, Registers)} :
              threads' = [threads EXCEPT ![t] =
                   IF r.thrown THEN [@ EXCEPT !.pc = "unlock", !.thrown = TRUE]
                   ELSE [@ EXCEPT !.pc = "rest", !.value = HalfStored(Zero64, r.value)]]
    /\ UNCHANGED <<RegisterAccessMutex, codec_vars, cpu_vars, base16>>

\* do_get_register: the second half is loaded and the value returned
DoGetRegisterRest ==
    /\ \E t \in Threads :
         /\ threads[t].pc = "rest"
         /\ threads[t].op = "get"
         /\ \E r \in {do_get_register(threads[t].target, Registers)} :
              threads' = [threads EXCEPT ![t] =
                   [@ EXCEPT !.pc = "unlock", !.value = HalfStored(r.value, @)]]
    /\ UNCHANGED <<RegisterAccessMutex, codec_vars, cpu_vars, base16>>

\* do_set_register: the switch; the first half of reg is stored or the
\* default case throws
DoSetRegister ==
    /\ \E t \in Threads :
         /\ threads[t].pc = "switch"
         /\ threads[t].op = "set"
         /\ \E old \in {do_get_register(threads[t].target, Registers).value} :
            \E r \in {do_set_register(threads[t].target, Registers,
                                      HalfStored(old, threads[t].val))} :
              /\ Registers' = r.regs
              /\ threads' = [threads EXCEPT ![t] =
                   IF r.thrown THEN [@ EXCEPT !.pc = "unlock", !.thrown = TRUE]
                   ELSE [@ EXCEPT !.pc = "rest"]]
    /\ UNCHANGED <<RegisterAccessMutex, codec_vars, base16>>
    /\ UNCHANGED <<interruption_vector_address_table_mutex_,
                   interruption_vector_address_table, vector_i, ip, mem, target, got,
                   cpu_pc, program, last, written, steps>>

\* do_set_register: the second half of reg is stored
DoSetRegisterRest ==
    /\ \E t \in Threads :
         /\ threads[t].pc = "rest"
         /\ threads[t].op = "set"
         /\ Registers' = do_set_register(threads[t].target, Registers,
                                         threads[t].val).regs
         /\ threads' = [threads EXCEPT ![t].pc = "unlock"]
    /\ UNCHANGED <<RegisterAccessMutex, codec_vars, base16>>
    /\ UNCHANGED <<interruption_vector_address_table_mutex_,
                   interruption_vector_address_table, vector_i, ip, mem, target, got,
                   cpu_pc, program, last, written, steps>>

\* the lock_guard is destroyed as the call returns or the exception leaves
\* it.  An ADD whose read of operand1 returned goes on to the assignment of
\* the sum, which calls do_set_register; an ADD is done when that returns.
Unlock ==
    /\ \E t \in Threads :
         /\ threads[t].pc = "unlock"
         /\ RegisterAccessMutex' = 0
         /\ threads' = [threads EXCEPT ![t] =
                IF threads[t].add = "read" /\ ~threads[t].thrown
                THEN [threads[t] EXCEPT !.pc = "lock_guard", !.op = "set", !.add = "write",
                                        !.val = Add64(threads[t].value, threads[t].addend)]
                ELSE [threads[t] EXCEPT !.pc = "idle",
                                        !.add = IF threads[t].add = "write" THEN "done"
                                                ELSE "none"]]
    /\ UNCHANGED <<codec_vars, cpu_vars, base16>>

ThreadNext ==
    \/ ThreadCalls
    \/ LockGuard
    \/ DoGetRegister
    \/ DoGetRegisterRest
    \/ DoSetRegister
    \/ DoSetRegisterRest
    \/ Unlock

(***************************************************************************)
(* process_base16(std::string & input) as it runs: the lambda replace_all  *)
(* turns "0X" into "0x", the regex iterator collects the matches of        *)
(* base16_pattern with their values into data, and the last loop replaces  *)
(* each tag of data throughout input, which it changes in place.           *)
(***************************************************************************)
\* the literals and operators the constant expressions are put together of,
\* as they stand after remove_space and capitalization
ExpressionTexts ==
    LET Terms == { <<"0", "X", "1">>,
                   <<"0", "X", "1", "F">>,
                   <<"0", "X", "1", "0">>,
                   <<"0", "X", "F", "F">>,
                   <<"0", "X", "A", "B", "C">>,
                   <<"7">>,
                   <<"1", "6">> }
    IN  Terms
        \cup {a \o <<op>> \o b : a \in Terms, b \in Terms, op \in {"+", "*"}}
        \cup {<<"(">> \o a \o <<"-">> \o b \o <<")", "/">> \o a :
                a \in {<<"0", "X", "1", "F">>, <<"0", "X", "1">>},
                b \in {<<"0", "X", "1", "F">>, <<"0", "X", "1">>, <<"2">>}}

Base16Init ==
    base16 = [pc |-> "idle", text |-> <<>>, input |-> <<>>, data |-> <<>>]

\* encode_constant calls process_base16 with a constant expression
Base16Call ==
    /\ base16.pc \in {"idle", "returned"}
    /\ \E e \in ExpressionTexts :
         base16' = [pc |-> "called", text |-> e, input |-> e, data |-> <<>>]
    /\ UNCHANGED <<codec_vars, cpu_vars, thread_vars>>

\* replace_all("0X", "0x")
Base16FixCase ==
    /\ base16.pc = "called"
    /\ base16' = [base16 EXCEPT !.pc = "fixed",
                    !.input = replace_all(@, <<"0", "X">>, <<"0", "x">>, 1)]
    /\ UNCHANGED <<codec_vars, cpu_vars, thread_vars>>

\* the loop over the matches: data gets the tags in the order of the text
Base16Match ==
    /\ base16.pc = "fixed"
    /\ base16' = [base16 EXCEPT !.pc = "replacing",
                    !.data = base16_matches(base16.input, 1)]
    /\ UNCHANGED <<codec_vars, cpu_vars, thread_vars>>

\* one turn of the last loop: replace_all(tag, std::to_string(rep))
Base16Replace ==
    /\ base16.pc = "replacing"
    /\ base16.data # <<>>
    /\ base16' = [base16 EXCEPT
                    !.input = replace_all(@, Head(base16.data),
                                          ToDec(strtoull16(Head(base16.data))), 1),
                    !.data = Tail(@)]
    /\ UNCHANGED <<codec_vars, cpu_vars, thread_vars>>

\* the last loop is over and process_base16 returns
Base16Return ==
    /\ base16.pc = "replacing"
    /\ base16.data = <<>>
    /\ base16' = [base16 EXCEPT !.pc = "returned"]
    /\ UNCHANGED <<codec_vars, cpu_vars, thread_vars>>

Base16Next ==
    \/ Base16Call
    \/ Base16FixCase
    \/ Base16Match
    \/ Base16Replace
    \/ Base16Return

(***************************************************************************)
(* The assembler tool as a state machine: main() of encode.target.cpp      *)
(* takes an operand text, assembles it into encode_buffer and disassembles *)
(* encode_buffer into decode_buffer.  The second entry takes a byte stream,*)
(* disassembles it and assembles the text it got.                          *)
(***************************************************************************)
\* the named 64-bit control registers, as the decoder test writes them
ControlRegisterTexts ==
    {<<"%", a, b>> : a \in {"S", "C", "D", "E"}, b \in {"B"}}
    \cup {<<"%", a, "P">> : a \in {"S", "D", "E"}}

RegisterTexts == {
    <<"%", "R", "0">>,
    <<"%", "R", "7">>,
    <<"%", "E", "X", "R", "3">>,
    <<"%", "H", "E", "R", "4">>,
    <<"%", "F", "E", "R", "0">>,
    <<"%", "F", "E", "R", "7">>,
    <<"%", "r", "7">>,
    <<"%", " ", "h", "e", "r", "4">>,
    <<"%", "F", "E", "R", "8">>,
    <<"%", "F", "E", "R", "1", "4">> }
    \cup ControlRegisterTexts

ConstantTexts == {
    <<"$", "(", "1", ")">>,
    <<"$", "(", "-", "1", ")">>,
    <<"$", "(", "0", "x", "1", "F", ")">>,
    <<"$", "(", "0", "x", "f", "f", ")">>,
    <<"$", "(", "2", "5", "5", ")">>,
    <<"$", "(", "0", ")">>,
    <<"$", "(", "-", "0", ")">>,
    <<"$", "(", "-", "3", "2", ")">>,
    <<"$", "(", " ", "1", "1", "4", "5", "1", "4", " ", ")">>,
    <<"$", "(", "1", "8", "4", "4", "6", "7", "4", "4", "0", "7", "3", "7", "0", "9", "5", "5", "1", "6", "1", "5", ")">>,
    <<"$", "(", "9", "2", "2", "3", "3", "7", "2", "0", "3", "6", "8", "5", "4", "7", "7", "5", "8", "0", "8", ")">>,
    <<"$", "(", "-", "9", "2", "2", "3", "3", "7", "2", "0", "3", "6", "8", "5", "4", "7", "7", "5", "8", "0", "8", ")">>,
    <<"$", "(", "9", "2", "2", "3", "3", "7", "2", "0", "3", "6", "8", "5", "4", "7", "7", "5", "8", "0", "7", ")">> }

SubTexts == {
    <<"%", "F", "E", "R", "0">>,
    <<"%", "F", "E", "R", "1">>,
    <<"$", "(", "-", "1", ")">>,
    <<"$", "(", "0", "x", "F", "F", ")">> }

SpacedSubTexts == {
    <<"%", "f", "e", "r", "2">>,
    <<" ", "$", "(", "4", ")">> }

\* memory operands of 64-bit registers and constants
MemoryTexts ==
    {<<"*">> \o RatioTexts[r] \o <<"(">> \o a \o <<",">> \o b \o <<",">> \o c \o <<")">> :
        r \in 1..Len(RatioTexts), a \in SubTexts, b \in SubTexts, c \in SubTexts}
    \cup
    {<<"*">> \o RatioTexts[r] \o <<"(">> \o a \o <<",">> \o b \o <<",", " ">> \o c \o <<")">> :
        r \in 1..Len(RatioTexts), a \in SpacedSubTexts, b \in SubTexts, c \in SpacedSubTexts}

\* the same with the access width the grammar puts after the ratio
WidthMemoryTexts ==
    {<<"*">> \o RatioTexts[r] \o <<"&", "6", "4", "(">> \o a \o <<",">> \o a \o <<",">> \o c \o <<")">> :
        r \in 1..Len(RatioTexts), a \in SubTexts, c \in SubTexts}

\* a memory operand text of ratio r with sub-operand x at position k and
\* %FER0 at the two other positions
MemoryTextWith(r, x, k) ==
    LET f == <<"%", "F", "E", "R", "0">>
    IN  <<"*">> \o r \o <<"(">> \o (IF k = 1 THEN x ELSE f) \o <<",">>
            \o (IF k = 2 THEN x ELSE f) \o <<",">>
            \o (IF k = 3 THEN x ELSE f) \o <<")">>

\* memory operands with a sub-operand that is a register of 8, 16 or 32 bits
NarrowSubMemoryTexts ==
    {MemoryTextWith(r, x, k) :
        r \in {<<"1">>, <<"1", "6">>},
        x \in {<<"%", "R", "1">>, <<"%", "E", "X", "R", "2">>, <<"%", "H", "E", "R", "3">>},
        k \in 1..3}

\* memory operands with a sub-operand that is a 64-bit register
WideSubMemoryTexts ==
    {MemoryTextWith(r, x, k) :
        r \in {<<"1">>, <<"1", "6">>},
        x \in {<<"%", "F", "E", "R", "7">>, <<"%", "F", "E", "R", "8">>,
               <<"%", "F", "E", "R", "1", "4">>, <<"%", "S", "P">>, <<"%", "D", "B">>},
        k \in 1..3}

\* operands in the angle brackets the instructions of the decoder test put
\* around them
BracketedTexts ==
    {<<"<">> \o t \o <<">">> :
        t \in {<<"%", "F", "E", "R", "0">>, <<"%", "e", "x", "r", "1">>,
               <<"$", "(", "0", "x", "F", "F", ")">>,
               <<"*", "2", "(", "%", "F", "E", "R", "0", ",", " ", "%", "F", "E", "R", "1",
                 ",", " ", "$", "(", "4", ")", ")">>}}

\* texts that none of the three patterns matches
UnparsableTexts == {
    <<>>,
    <<" ">>,
    <<"F", "E", "R", "0">>,
    <<"%", "R", "8">>,
    <<"%", "R", "0", "0">>,
    <<"$", "(", "1">>,
    <<"$", "1">>,
    <<"*", "3", "(", "%", "F", "E", "R", "0", ",", "%", "F", "E", "R", "0", ",",
      "%", "F", "E", "R", "0", ")">>,
    <<"*", "1", "(", "%", "F", "E", "R", "0", ",", "%", "F", "E", "R", "0", ")">>,
    <<"n", "o", "p">> }

\* The last texts hold a constant whose expression makes the command line
\* of the calculator end with a status other than 0 (a lone double quote,
\* which the shell cannot close), alone and as each sub-operand of a memory
\* operand, and a memory operand whose second sub-operand is no operand.
OperandTexts ==
    RegisterTexts \cup ConstantTexts \cup MemoryTexts \cup WidthMemoryTexts
    \cup NarrowSubMemoryTexts \cup WideSubMemoryTexts \cup BracketedTexts
    \cup UnparsableTexts
    \cup {<<"$", "(", "\"", ")">>, <<"$", "(", "1", "\"", ")">>}
    \cup {<<"*", "1", "(">> \o a \o <<",">> \o b \o <<",">> \o c \o <<")">> :
            a \in {<<"%", "F", "E", "R", "0">>, <<"$", "(", "\"", ")">>},
            b \in {<<"$", "(", "2", ")">>, <<"$", "(", "\"", ")">>, <<"n", "o", "p">>},
            c \in {<<"%", "F", "E", "R", "1">>, <<"$", "(", "\"", ")">>}}

\* byte streams for the disassembler
WireWords == {Zero64, FromInt(1), FromInt(31), FromInt(255), Max64, MaxS64, MinS64}

RegisterRecords ==
    {<<REGISTER_PREFIX, w, i>> : w \in {TAG_8, TAG_16, TAG_32, TAG_64, 252}, i \in {0, 7, 8, 14, 16, 255}}

ConstantRecords == {<<CONSTANT_PREFIX, sg>> \o v : sg \in {0, 1, 2}, v \in WireWords}

SubRecords ==
    {<<REGISTER_PREFIX, TAG_64, 0>>,
     <<REGISTER_PREFIX, TAG_8, 1>>, <<REGISTER_PREFIX, TAG_64, 14>>,
     <<CONSTANT_PREFIX, 0>> \o FromInt(255), <<CONSTANT_PREFIX, 1>> \o Max64,
     <<MEMORY_PREFIX, 1>>}

MemoryRecords ==
    {<<MEMORY_PREFIX, r>> \o a \o b \o c :
        r \in {1, 2, 4, 8, 22, 16}, a \in SubRecords, b \in SubRecords, c \in SubRecords}

\* the last ones are records cut off in the middle
OperandRecords ==
    RegisterRecords \cup ConstantRecords \cup MemoryRecords \cup {<<4, 0, 0>>}
    \cup {<<REGISTER_PREFIX>>, <<REGISTER_PREFIX, TAG_64>>, <<CONSTANT_PREFIX, 0, 1, 2>>,
          <<MEMORY_PREFIX>>, <<MEMORY_PREFIX, 1, REGISTER_PREFIX, TAG_64, 0, CONSTANT_PREFIX>>,
          <<MEMORY_PREFIX, 1, REGISTER_PREFIX, TAG_64, 0, REGISTER_PREFIX, TAG_64, 1>>}

CodecInit ==
    /\ inp = <<>>
    /\ encode_buffer = <<>>
    /\ decode_buffer = <<>>
    /\ orig = <<>>
    /\ cpc = "idle"

\* main, lines 435-439: the next input, two fresh buffers, encode_target
MainEncode ==
    /\ cpc = "idle"
    /\ \E t \in OperandTexts :
         \E e \in {encode_target(<<>>, t)} :
             /\ inp' = t
             /\ encode_buffer' = e.buffer
             /\ cpc' = IF e.thrown THEN "encode_thrown" ELSE "encoded"
    /\ UNCHANGED <<decode_buffer, orig>>
    /\ UNCHANGED <<cpu_vars, thread_vars, base16>>

\* main, line 446: decode(decode_buffer, encode_buffer)
MainDecode ==
    /\ cpc = "encoded"
    /\ \E d \in {decode(decode_buffer, encode_buffer)} :
         /\ decode_buffer' = d.output
         /\ encode_buffer' = d.input
         /\ cpc' = IF d.oob THEN "decode_oob"
                   ELSE IF d.thrown THEN "decode_thrown" ELSE "decoded"
    /\ UNCHANGED <<inp, orig>>
    /\ UNCHANGED <<cpu_vars, thread_vars, base16>>

\* main, line 451: the loop goes on to the next input
MainNext ==
    /\ cpc \in {"decoded", "reassembled"}
    /\ inp' = <<>>
    /\ encode_buffer' = <<>>
    /\ decode_buffer' = <<>>
    /\ orig' = <<>>
    /\ cpc' = "idle"
    /\ UNCHANGED <<cpu_vars, thread_vars, base16>>

\* decode on a byte stream that did not come from encode_target
Disassemble ==
    /\ cpc = "idle"
    /\ \E B \in OperandRecords :
         \E d \in {decode(<<>>, B)} :
             /\ orig' = B
             /\ decode_buffer' = d.output
             /\ encode_buffer' = d.input
             /\ cpc' = IF d.oob THEN "disassemble_oob"
                       ELSE IF d.thrown THEN "disassemble_thrown" ELSE "disassembled"
    /\ UNCHANGED inp
    /\ UNCHANGED <<cpu_vars, thread_vars, base16>>

\* encode_target on the text the disassembler produced
Reassemble ==
    /\ cpc = "disassembled"
    /\ \E e \in {encode_target(<<>>, Concat(decode_buffer))} :
         /\ inp' = Concat(decode_buffer)
         /\ encode_buffer' = e.buffer
         /\ cpc' = IF e.thrown THEN "reassemble_thrown" ELSE "reassembled"
    /\ UNCHANGED <<decode_buffer, orig>>
    /\ UNCHANGED <<cpu_vars, thread_vars, base16>>

CodecNext == MainEncode \/ MainDecode \/ MainNext \/ Disassemble \/ Reassemble

vars == <<codec_vars, cpu_vars, thread_vars, base16>>

Init == CodecInit /\ CpuInit /\ ThreadInit /\ Base16Init

\* the assembler tool alone
SpecCodec == Init /\ [][CodecNext]_vars

\* the processor alone
SpecCPU == Init /\ [][CpuNext]_vars

\* the threads' register accesses
SpecThreads == Init /\ [][ThreadNext]_vars

\* process_base16 on constant expressions
SpecBase16 == Init /\ [][Base16Next]_vars

(***************************************************************************)
(* The claims                                                              *)
(***************************************************************************)

\* The canonical form of an operand text: spaces removed, upper case, and
\* every constant $(e) rendered by the sign rule: a negative value in decimal
\* with its "-", any other value in upper-case hexadecimal after 0x.
CanonConstant(e) ==
    IF StartsAt(e, <<"0", "X">>, 1)
    THEN <<"0", "x">> \o ToHex(ParseMag(SubSeq(e, 3, Len(e)), 16).w)
    ELSE IF e # <<>> /\ Head(e) = "-" /\ ParseMag(Tail(e), 10).w # Zero64
    THEN <<"-">> \o ToDec(ParseMag(Tail(e), 10).w)
    ELSE <<"0", "x">> \o ToHex(ParseMag(IF e # <<>> /\ Head(e) = "-" THEN Tail(e) ELSE e, 10).w)

RECURSIVE CanonConstants(_)
CanonConstants(u) ==
    LET opens == {p \in 1..(Len(u) - 1) : u[p] = "$" /\ u[p + 1] = "("}
    IN  IF opens = {} THEN u
        ELSE LET p == CHOOSE q \in opens : \A r \in opens : q <= r
                 closes == {q \in (p + 2)..Len(u) : u[q] = ")"}
                 c == CHOOSE q \in closes : \A r \in closes : q <= r
             IN  SubSeq(u, 1, p + 1) \o CanonConstant(SubSeq(u, p + 2, c - 1)) \o <<")">>
                   \o CanonConstants(SubSeq(u, c + 1, Len(u)))

Canonicalize(T) == CanonConstants(capitalization(remove_space(T)))

\* the operand texts of the grammar: registers, constants, and memory
\* operands of a ratio and three sub-operands that are 64-bit registers or
\* constants
GrammarTexts == RegisterTexts \cup ConstantTexts \cup MemoryTexts \cup WidthMemoryTexts

\* C1: for every operand text T of the grammar, disassembling the bytes that
\* assembling T produced gives canonicalize(T): main never ends in an error
\* on T, and the fragments decode wrote, concatenated, are that text.
C1_RoundTripText ==
    (inp \in GrammarTexts /\ cpc \in {"encode_thrown", "decode_thrown", "decode_oob", "decoded"})
        => /\ cpc = "decoded"
           /\ Concat(decode_buffer) = Canonicalize(inp)

\* a register record of a register that exists: R, EXR, HER 0..7, FER 0..15
ValidRegisterRecord(w, i) ==
    \/ w \in {TAG_8, TAG_16, TAG_32} /\ i \in 0..7
    \/ w = TAG_64 /\ i \in 0..15

\* B is n sub-operand records and nothing more: 64-bit registers and
\* constants with SIGN 0x00 or 0x01
RECURSIVE ValidSubOperands(_, _)
ValidSubOperands(B, n) ==
    IF n = 0 THEN B = <<>>
    ELSE IF Len(B) >= 3 /\ B[1] = REGISTER_PREFIX
    THEN /\ B[2] = TAG_64
         /\ B[3] \in 0..15
         /\ ValidSubOperands(SubSeq(B, 4, Len(B)), n - 1)
    ELSE IF Len(B) >= 10 /\ B[1] = CONSTANT_PREFIX
    THEN /\ B[2] \in {0, 1}
         /\ ValidSubOperands(SubSeq(B, 11, Len(B)), n - 1)
    ELSE FALSE

\* a byte stream that is one valid operand: a register record, a constant
\* record with SIGN 0x00 or 0x01, or a memory record of a ratio in packed BCD
\* and three sub-operands
ValidOperandBytes(B) ==
    \/ Len(B) = 3 /\ B[1] = REGISTER_PREFIX /\ ValidRegisterRecord(B[2], B[3])
    \/ Len(B) = 10 /\ B[1] = CONSTANT_PREFIX /\ B[2] \in {0, 1}
    \/ /\ Len(B) >= 2
       /\ B[1] = MEMORY_PREFIX
       /\ B[2] \in {1, 2, 4, 8, TAG_16}
       /\ ValidSubOperands(SubSeq(B, 3, Len(B)), 3)

\* C2: for every byte stream B that decode accepts as one valid operand,
\* assembling the text decode produced gives exactly B.
C2_RoundTripBytes ==
    (cpc \in {"reassembled", "reassemble_thrown"} /\ ValidOperandBytes(orig))
        => /\ cpc = "reassembled"
           /\ encode_buffer = orig

\* the packed BCD byte of a ratio as the number it writes: 0x16 is 16
BcdValue(b) == (b \div 16) * 10 + (b % 16)

\* the record of an assembled program that starts at address a, 0 if none
RecordAt(a) ==
    IF a = BIOS_START THEN 1
    ELSE IF a = BIOS_START + Len(program.records[1]) THEN 2
    ELSE 0

\* the Target the processor built is the operand of the assembler's record
SameOperand(t, rec) ==
    /\ rec[1] = REGISTER_PREFIX =>
          /\ t.TargetType = "TypeRegister"
          /\ t.TargetWidth = rec[2]
          /\ t.RegisterIndex = rec[3]
    /\ rec[1] = CONSTANT_PREFIX =>
          /\ t.TargetType = "TypeConstant"
          /\ t.ConstantValue = SubSeq(rec, 3, 10)
    /\ rec[1] = MEMORY_PREFIX =>
          /\ t.TargetType = "TypeMemory"
          /\ t.Ratio = rec[2]

\* C3: the assembler and the processor's operand decoder use one wire
\* layout: the Target constructed on the bytes encode_target emitted for an
\* operand throws no IllegalInstruction, consumes exactly those bytes, and
\* holds the same kind of operand with the same register width and index,
\* the same constant value and the same memory ratio.
C3_OneWireLayout ==
    (program.kind = "asm" /\ last.op = "pop_target" /\ last.ip0 = BIOS_START)
        => /\ ~last.thrown
           /\ ip - last.ip0 = Len(program.records[1])
           /\ SameOperand(target, program.records[1])

\* C4: a Memory operand the processor decoded, whose sub-operands resolved
\* to vb, v1, v2 and whose ratio byte is the packed BCD of r in
\* {1, 2, 4, 8, 16}, has the address ((vb + v1 + v2) * r) mod 2^64.
C4_EffectiveAddress ==
    (last.op = "pop_target" /\ ~last.thrown /\ target.TargetType = "TypeMemory"
       /\ target.Ratio \in {1, 2, 4, 8, TAG_16})
        => target.MemoryAddress =
               MulSmall64(Add64(Add64(target.BaseAddress, target.Offset1), target.Offset2),
                          BcdValue(target.Ratio))

\* the width in bytes of the class a width tag names
ClassBytes(w) ==
    CASE w = TAG_8 -> 1
      [] w = TAG_16 -> 2
      [] w = TAG_32 -> 4
      [] OTHER -> 8

\* the Target names a register of the register file: R, EXR, HER 0..7 at 8,
\* 16, 32 bits, FER 0..15 and the control registers at 64 bits
NamesRegister(t) ==
    /\ t.TargetType = "TypeRegister"
    /\ \/ ValidRegisterRecord(t.TargetWidth, t.RegisterIndex)
       \/ /\ t.TargetWidth = TAG_64
          /\ t.RegisterIndex \in {R_StackPointer, R_DataPointer, R_ExtendedSegmentPointer}

\* C5: for every register of every class and every 64-bit value x, writing
\* x to the register and then reading it yields x mod 2^w, w the width of
\* the register's class: neither access throws, and the value read is the
\* low w bits of the value written.
C5_WriteThenRead ==
    /\ (NamesRegister(target) /\ last.op = "set") => ~last.thrown
    /\ (NamesRegister(target) /\ last.op = "get" /\ written # <<>>)
          => /\ ~last.thrown
             /\ got = Narrow(written[1], ClassBytes(target.TargetWidth))

\* C6: after initialization the interrupt vector table has exactly 512
\* entries, and entry i is 0xA0000 + 8 * i for every i in 0..511.
C6_VectorTable ==
    cpu_pc # "static_init"
        => /\ DOMAIN interruption_vector_address_table = 0..511
           /\ \A i \in 0..511 : interruption_vector_address_table[i] = 655360 + 8 * i

\* initialization is over and the table has its last entry
C6_Witness ==
    /\ cpu_pc = "constructed"
    /\ vector_i = TOTAL_ENTRIES
    /\ 511 \in DOMAIN interruption_vector_address_table

\* C7: for every interrupt code c in 0..511, soft_interruption_ready(c)
\* sets the instruction pointer to vector entry c, so that the next fetch
\* reads from 0xA0000 + 8 * c.
C7_InterruptEntry ==
    (last.op = "soft_interruption_ready" /\ last.arg \in 0..511)
        => /\ ip = interruption_vector_address_table[last.arg]
           /\ ip = 655360 + 8 * last.arg

\* C8: when operation fetches an opcode that is neither 0x00 nor 0x01, the
\* executor continues at the illegal-instruction vector entry and no
\* register value is changed.
C8_UnknownOpcode ==
    (last.op = "operation" /\ last.opcode \notin {Opcode(0), Opcode(1)})
        => /\ ~last.thrown
           /\ ip = interruption_vector_address_table[INT_ILLEGAL_INSTRUCTION]
           /\ Registers = last.regs0

\* C9: an IllegalInstruction thrown while the operands of an instruction
\* are decoded never leaves operation as an exception of the host: it is
\* caught and the execution goes on.
C9_DecodeErrorCaught ==
    (last.op = "operation" /\ last.fault = "decode")
        => /\ ~last.thrown
           /\ cpu_pc # "crashed"

\* C10: decoding an operand consumes exactly the bytes that encoding it
\* produced: with the encodings of two operands written one after the other
\* at BIOS_START, every decoding that starts at the first byte of one of
\* them throws nothing, advances the instruction pointer by exactly the
\* length of that encoding, and so ends where the next one starts.
C10_NoReadIntoNext ==
    (program.kind = "asm" /\ last.op = "pop_target" /\ RecordAt(last.ip0) # 0)
        => /\ ~last.thrown
           /\ ip = last.ip0 + Len(program.records[RecordAt(last.ip0)])

\* the register operands of the grammar with the record each assembles to:
\* R, EXR, HER 0..7 and FER 0..15, the index written in decimal
GrammarRegisters ==
    {[text  |-> <<"%">> \o c.name \o ToDec(FromInt(i)),
      bytes |-> <<REGISTER_PREFIX, c.tag, i>>] :
        c \in {[name |-> <<"R">>, tag |-> TAG_8],
               [name |-> <<"E", "X", "R">>, tag |-> TAG_16],
               [name |-> <<"H", "E", "R">>, tag |-> TAG_32]},
        i \in 0..7}
    \cup
    {[text  |-> <<"%", "F", "E", "R">> \o ToDec(FromInt(i)),
      bytes |-> <<REGISTER_PREFIX, TAG_64, i>>] : i \in 0..15}

\* C11: assembling a register operand emits exactly the three bytes
\* 01 WIDTH IDX, WIDTH the tag of the class and IDX the register's index,
\* 0..7 for R, EXR and HER and 0..15 for FER; the assembler throws on none.
C11_RegisterRecord ==
    \A r \in GrammarRegisters :
        (cpc \in {"encoded", "encode_thrown"} /\ capitalization(remove_space(inp)) = r.text)
            => /\ cpc = "encoded"
               /\ encode_buffer = r.bytes

\* The constant a literal expression writes, e the expression in upper case
\* without spaces: an optional "-", then decimal digits or 0X and hexadecimal
\* digits.  word is its value in 64-bit two's complement; fits says that the
\* value is one of the 64-bit values, signed or unsigned.
LiteralOf(e) ==
    LET neg  == e # <<>> /\ Head(e) = "-"
        body == IF neg THEN Tail(e) ELSE e
        hex  == StartsAt(body, <<"0", "X">>, 1)
        mag  == IF hex THEN ParseMag(SubSeq(body, 3, Len(body)), 16)
                ELSE ParseMag(body, 10)
    IN  [neg  |-> neg,
         word |-> IF neg THEN Neg64(mag.w) ELSE mag.w,
         fits |-> /\ ~mag.ovf
                  /\ neg => (~IsNeg64(mag.w) \/ mag.w = MinS64)]

\* the SIGN byte of the sign rule: the signed and the unsigned reading of a
\* word agree when its top bit is clear; where they disagree the constant is
\* signed if the expression begins with "-", unsigned otherwise
SignRule(lit) == IF IsNeg64(lit.word) /\ lit.neg THEN 1 ELSE 0

C13_MemoryWithWidth ==
    (inp \in WidthMemoryTexts /\ cpc \in {"encoded", "encode_thrown"})
        => /\ cpc = "encoded"
           /\ encode_buffer # <<>>
           /\ encode_buffer[1] = MEMORY_PREFIX
           /\ \/ encode_buffer[2] = TAG_64
              \/ encode_buffer[Len(encode_buffer)] = TAG_64

\* the 64-bit-class indices from 0x10 up under which the processor's register
\* access both reads and writes a register
ControlIndices ==
    {i \in 16..255 : /\ get_register_field(TAG_64, i) # NoField
                     /\ set_register_field(TAG_64, i) # NoField}

\* C14: each of the seven control registers SB, SP, CB, DB, DP, EB, EP is
\* accepted by the assembler as a register operand, assembled to a record of
\* the 64-bit class with an index from 0x10 up, and the processor's register
\* access reads and writes seven such indices.
C14_ControlRegisters ==
    (inp \in ControlRegisterTexts /\ cpc \in {"encoded", "encode_thrown"})
        => /\ cpc = "encoded"
           /\ Len(encode_buffer) = 3
           /\ encode_buffer[1] = REGISTER_PREFIX
           /\ encode_buffer[2] = TAG_64
           /\ encode_buffer[3] >= 16
           /\ Cardinality(ControlIndices) >= 7

\* the width tags of the register sub-operands among the next n sub-operands
\* of a memory record in the processor's layout, read from position p
RECURSIVE SubOperandTags(_, _, _)
SubOperandTags(rec, p, n) ==
    IF n = 0 \/ p + 2 > Len(rec) THEN {}
    ELSE IF rec[p] = REGISTER_PREFIX
    THEN {rec[p + 1]} \cup SubOperandTags(rec, p + 3, n - 1)
    ELSE IF rec[p] = CONSTANT_PREFIX
    THEN SubOperandTags(rec, p + 10, n - 1)
    ELSE {}

\* the record the last pop_target started on is a memory record written for
\* the processor's decoder
DecodedMemoryRecord ==
    /\ program.kind = "cpu"
    /\ last.op = "pop_target"
    /\ RecordAt(last.ip0) # 0
    /\ RecordAt(last.ip0) <= Len(program.records)
    /\ program.records[RecordAt(last.ip0)][1] = MEMORY_PREFIX

\* C15: when the processor decodes a Memory operand one of whose
\* sub-operands is a register of a width other than 64 bits, decoding throws
\* an IllegalInstruction and computes no address.
C15_NarrowSubOperand ==
    (DecodedMemoryRecord
       /\ SubOperandTags(program.records[RecordAt(last.ip0)], 3, 3)
            \cap {TAG_8, TAG_16, TAG_32, TAG_FP} # {})
        => /\ last.thrown
           /\ target.TargetType # "TypeMemory"

\* C16: the assembler throws a TargetExpressionError on every memory operand
\* text in which a sub-operand is a register that is not a 64-bit register,
\* and throws on none whose sub-operands are 64-bit registers of the
\* grammar (FER0..FER15 and the named control registers).
C16_SubOperandRegisters ==
    /\ (inp \in NarrowSubMemoryTexts /\ cpc \in {"encoded", "encode_thrown"})
          => cpc = "encode_thrown"
    /\ (inp \in WideSubMemoryTexts /\ cpc \in {"encoded", "encode_thrown"})
          => cpc = "encoded"

\* C17: set_target_content_in_u64bit_t on a Target of TypeConstant always
\* raises illegal-instruction, whatever its never-assigned TargetWidth holds,
\* and changes no register and no memory byte.
C17_SetConstantThrows ==
    (last.op = "set" /\ target.TargetType = "TypeConstant") =>
        /\ last.thrown
        /\ cpu_pc = "crashed"
        /\ Registers = last.regs0
        /\ mem = last.mem0

\* a constant was written through while its TargetWidth held a legal tag, so
\* that the throw came from the TypeConstant case and not from the width switch
C17_Witness ==
    /\ last.op = "set"
    /\ target.TargetType = "TypeConstant"
    /\ target.TargetWidth = TAG_64
    /\ last.thrown
    /\ mem = last.mem0

\* the bytes of an access of the width tag w
AccessBytes(w) ==
    CASE w = TAG_8 -> 1 [] w = TAG_16 -> 2 [] w = TAG_32 -> 4 [] w = TAG_64 -> 8 [] OTHER -> 0

\* the n bytes of memory m at address ea, zero-extended to 64 bits
ZeroExtended(m, ea, n) ==
    [i \in 1..8 |-> IF i <= n /\ Add64(ea, FromInt(i - 1)) \in DOMAIN m
                    THEN m[Add64(ea, FromInt(i - 1))] ELSE 0]

MemoryAccess(op) ==
    /\ last.op = op
    /\ target.TargetType = "TypeMemory"
    /\ AccessBytes(target.TargetWidth) # 0

\* C18: reading a Memory operand of access width w in {8, 16, 32, 64}
\* returns the value of exactly the w/8 bytes at the effective address,
\* zero-extended to 64 bits; the bytes at EA + w/8 and above have no part in it.
C18_MemoryRead ==
    MemoryAccess("get") =>
        /\ ~last.thrown
        /\ got = ZeroExtended(last.mem0, target.MemoryAddress,
                              AccessBytes(target.TargetWidth))

\* the cells of an access of n bytes at address ea
AccessCells(ea, n) == {Add64(ea, FromInt(i - 1)) : i \in 1..n}

\* C19: writing v through a Memory operand of access width w in
\* {8, 16, 32, 64} stores the low w/8 bytes of v, least significant first, at
\* EA .. EA + w/8 - 1 and leaves every other memory byte and every register as
\* it was.
C19_MemoryWrite ==
    MemoryAccess("set") =>
        /\ ~last.thrown
        /\ Registers = last.regs0
        /\ Len(written) = 1
        /\ Let(AccessBytes(target.TargetWidth), LAMBDA n :
             /\ \A i \in 1..n :
                  /\ Add64(target.MemoryAddress, FromInt(i - 1)) \in DOMAIN mem
                  /\ mem[Add64(target.MemoryAddress, FromInt(i - 1))] = written[1][i]
             /\ \A a \in (DOMAIN mem \cup DOMAIN last.mem0)
                           \ AccessCells(target.MemoryAddress, n) :
                  /\ a \in DOMAIN mem
                  /\ a \in DOMAIN last.mem0
                  /\ mem[a] = last.mem0[a])

\* sixteen bits of the value with every bit set were written where the
\* program's bytes lay, and the memory changed
C19_Witness ==
    /\ MemoryAccess("set")
    /\ target.TargetWidth = TAG_16
    /\ target.MemoryAddress = FromInt(BIOS_START)
    /\ written = <<Max64>>
    /\ mem # last.mem0
    /\ mem[FromInt(BIOS_START + 2)] = last.mem0[FromInt(BIOS_START + 2)]

\* the places of a call between the construction and the destruction of its
\* lock_guard
InsideAccess == {"switch", "rest", "unlock"}

\* zero and the values of the calls, with up to n addends of ADDs added
RECURSIVE Sums(_)
Sums(n) ==
    IF n = 0 THEN {Zero64} \cup Values
    ELSE Let(Sums(n - 1), LAMBDA S : S \cup {Add64(v, a) : v \in S, a \in Addends})

\* the values some call stores whole
WholeValues == Sums(2 * MaxAdds)

\* C20: at no time are two threads both inside do_get_register or
\* do_set_register; a thread inside holds CPU.RegisterAccessMutex for the
\* whole access, and a register read never returns a value of which only a
\* part had been written.
C20_RegisterAccessExclusive ==
    /\ Cardinality({t \in Threads : threads[t].pc \in InsideAccess}) <= 1
    /\ \A t \in Threads : threads[t].pc \in InsideAccess => RegisterAccessMutex = t
    /\ \A t \in Threads :
         (threads[t].op = "get" /\ threads[t].pc \in {"unlock", "idle"}
            /\ ~threads[t].thrown) => threads[t].value \in WholeValues

\* one thread has stored the first half of a register, which holds a value
\* nobody wrote, while the other has called do_get_register on the same
\* register and waits for the mutex
C20_Witness ==
    /\ threads[1].pc = "rest"
    /\ threads[1].op = "set"
    /\ Registers[<<"FullyExtendedRegister", 0>>] \notin WholeValues
    /\ threads[2].pc = "lock_guard"
    /\ threads[2].op = "get"
    /\ threads[2].target = threads[1].target
    /\ RegisterAccessMutex = 1

\* the (width tag, index) pair names no register of its class
NoSuchRegister(w, i) ==
    \/ w \in {TAG_8, TAG_16, TAG_32} /\ i > 7
    \/ w = TAG_64 /\ i \notin (0..15) \cup {R_StackPointer, R_DataPointer,
                                           R_ExtendedSegmentPointer}
    \/ w \notin {TAG_8, TAG_16, TAG_32, TAG_64}

\* C21: reading or writing a register with a (width tag, index) pair that
\* names no register of that class raises an illegal-instruction fault and
\* leaves every register unchanged.
C21_NoSuchRegisterFaults ==
    (/\ last.op \in {"get", "set"}
     /\ target.TargetType = "TypeRegister"
     /\ NoSuchRegister(target.TargetWidth, target.RegisterIndex)) =>
        /\ last.thrown
        /\ last.fault = "access"
        /\ Registers = last.regs0
        /\ mem = last.mem0

\* register 8 of the 8-bit class was read after a register had been written
C21_Witness ==
    /\ last.op = "get"
    /\ target.TargetType = "TypeRegister"
    /\ target.TargetWidth = TAG_8
    /\ target.RegisterIndex = 8
    /\ last.thrown
    /\ cpu_pc = "crashed"

\* an instruction of one 64-bit register operand whose opcode is neither
\* NOP's nor ADD's: the layout of push and pop
StackInstruction(rec) ==
    /\ Len(rec) = 12
    /\ SubSeq(rec, 1, 8) \notin {Opcode(0), Opcode(1)}
    /\ rec[9] = TAG_64
    /\ SubSeq(rec, 10, 12) = <<REGISTER_PREFIX, TAG_64, 0>>

\* C22: push(A), push(B), pop = X, pop = Y gives X = B and Y = A and returns
\* SP to its initial value, SP decreasing by the operand width in bytes on
\* each push: after the first push of 64 bits SP is 8 less than before, the
\* eight bytes at SP hold the operand and the instruction was consumed whole.
C22_StackDiscipline ==
    (/\ program.kind = "code"
     /\ last.op = "operation"
     /\ last.ip0 = BIOS_START
     /\ StackInstruction(program.records[1])) =>
        /\ Registers[<<"StackPointer", 0>>] =
               Add64(last.regs0[<<"StackPointer", 0>>], Neg64(FromInt(8)))
        /\ get_memory(mem, Registers[<<"StackPointer", 0>>], 8) =
               last.regs0[<<"FullyExtendedRegister", 0>>]
        /\ ip = last.ip0 + 12

\* the expression e from position p on with every hexadecimal literal
\* replaced by the decimal rendering of its own value
RECURSIVE HexReplaced(_, _)
HexReplaced(e, p) ==
    IF p > Len(e) THEN <<>>
    ELSE IF /\ p + 2 <= Len(e)
            /\ e[p] = "0"
            /\ e[p + 1] \in {"x", "X"}
            /\ IsHexDigit(e[p + 2])
    THEN Let(HexRunEnd(e, p + 2), LAMBDA end :
             ToDec(ParseMag(capitalization(SubSeq(e, p + 2, end)), 16).w)
                 \o HexReplaced(e, end + 1))
    ELSE <<e[p]>> \o HexReplaced(e, p + 1)

\* C23: before a constant expression is evaluated, every hexadecimal literal
\* in it is replaced by the decimal rendering of its own value and nothing
\* else in the expression changes, also where one literal is a textual
\* prefix of another.
C23_HexLiteralsReplaced ==
    base16.pc = "returned" => base16.input = HexReplaced(base16.text, 1)

\* a constant record was handed to the disassembler, which returned
DisassembledConstant ==
    /\ cpc \in {"disassembled", "reassembled", "reassemble_thrown"}
    /\ orig \in ConstantRecords

\* the text between "$(" and ")" of the disassembler's output
RenderedConstant ==
    Let(Concat(decode_buffer), LAMBDA text :
        IF Len(text) >= 3 /\ SubSeq(text, 1, 2) = <<"$", "(">> /\ text[Len(text)] = ")"
        THEN SubSeq(text, 3, Len(text) - 1) ELSE <<>>)

\* C24 as stated: a constant record is rendered as upper-case hexadecimal
\* with the prefix 0x when its SIGN byte is 0x00, and as decimal with a
\* leading '-' when its SIGN byte marks it signed, for every 64-bit VAL.
C24_ConstantRendering ==
    DisassembledConstant =>
        IF orig[2] = 0
        THEN RenderedConstant = <<"0", "x">> \o ToHex(SubSeq(orig, 3, 10))
        ELSE /\ Len(RenderedConstant) >= 2
             /\ RenderedConstant[1] = "-"
             /\ IsDecLiteral(Tail(RenderedConstant))

\* C24, amended: with the SIGN byte 0x00 the rendering is 0x and VAL in
\* upper-case hexadecimal; with any other SIGN byte it is VAL read as a
\* two's-complement number in decimal, which has the leading '-' exactly when
\* VAL is 2^63 or more.
C24_ConstantRenderingAmended ==
    DisassembledConstant =>
        Let(SubSeq(orig, 3, 10), LAMBDA VAL :
            IF orig[2] = 0
            THEN RenderedConstant = <<"0", "x">> \o ToHex(VAL)
            ELSE IF IsNeg64(VAL)
            THEN RenderedConstant = <<"-">> \o ToDec(Neg64(VAL))
            ELSE RenderedConstant = ToDec(VAL))

\* the signed record of -2^63 was rendered
C24_Witness ==
    /\ DisassembledConstant
    /\ orig = <<CONSTANT_PREFIX, 1>> \o MinS64
    /\ Concat(decode_buffer) = <<"$", "(", "-", "9", "2", "2", "3", "3", "7", "2", "0",
                                 "3", "6", "8", "5", "4", "7", "7", "5", "8", "0", "8", ")">>

\* T with the spaces removed, the letters upper-cased and the enclosing
\* angle brackets stripped
StripBrackets(t) ==
    IF Len(t) >= 2 /\ t[1] = "<" /\ t[Len(t)] = ">" THEN SubSeq(t, 2, Len(t) - 1) ELSE t

NormalizedText(T) == StripBrackets(capitalization(remove_space(T)))

\* C25: for every operand text T, encode_target(T) produces the same bytes
\* as encode_target applied to T with spaces removed, letters upper-cased and
\* the outer angle brackets stripped, and fails only where that fails.
C25_InsensitiveToForm ==
    cpc \in {"encoded", "encode_thrown"} =>
        Let(encode_target(<<>>, NormalizedText(inp)), LAMBDA e :
            /\ (cpc = "encode_thrown") = e.thrown
            /\ encode_buffer = e.buffer)

\* none of register_pattern, constant_pattern and memory_pattern matches
\* the text as parse sees it
MatchesNoPattern(T) ==
    Let(capitalization(remove_space(T)), LAMBDA input :
        /\ ~is_valid_register(input)
        /\ ~is_valid_constant(input)
        /\ ~is_valid_memory(input))

\* C26: a text is matched against the register, the constant and the memory
\* pattern, and every text that matches none of them makes encode_target fail
\* with a TargetExpressionError: none is accepted without an operand kind,
\* and no byte is written for it.
C26_UnmatchedTextFails ==
    (cpc \in {"encoded", "encode_thrown"} /\ MatchesNoPattern(inp)) =>
        /\ cpc = "encode_thrown"
        /\ encode_buffer = <<>>

\* the text nop, which no pattern matches, was handed to encode_target
C26_Witness ==
    /\ inp = <<"n", "o", "p">>
    /\ MatchesNoPattern(inp)
    /\ cpc = "encode_thrown"

\* C27: executing NOP has no effect on the machine state other than advancing
\* the instruction pointer past its 64-bit opcode: every register, every
\* memory byte and the interrupt vector table are unchanged and nothing is
\* thrown.
C27_NopFrame ==
    (last.op = "operation" /\ last.opcode = Opcode(0)) =>
        /\ ~last.thrown
        /\ cpu_pc = "running"
        /\ ip = last.ip0 + 8
        /\ Registers = last.regs0
        /\ mem = last.mem0

\* a NOP was executed after an ADD had changed a register
C27_Witness ==
    /\ last.op = "operation"
    /\ last.opcode = Opcode(0)
    /\ last.ip0 > BIOS_START
    /\ \E f \in RegisterFields : last.regs0[f] # Zero64
    /\ ip = last.ip0 + 8

\* the register file's field of the register record <<REGISTER_PREFIX, w, i>>
RegisterFieldOf(w, i) ==
    CASE w = TAG_8  -> <<"R", i>>
      [] w = TAG_16 -> <<"ExtendedRegister", i>>
      [] w = TAG_32 -> <<"HalfExtendedRegister", i>>
      [] OTHER      -> <<"FullyExtendedRegister", i>>

\* the value of the source operand record src before the instruction: a
\* register of the register file or a 64-bit constant
SourceValue(src) ==
    IF src[1] = REGISTER_PREFIX THEN last.regs0[RegisterFieldOf(src[2], src[3])]
    ELSE SubSeq(src, 3, 10)

\* the instruction at the instruction pointer was ADD with a register of the
\* register file as destination and a register or a constant as source
AddToRegister(rec) ==
    /\ last.op = "operation"
    /\ Len(rec) >= 15
    /\ SubSeq(rec, 1, 8) = Opcode(1)
    /\ rec[10] = REGISTER_PREFIX
    /\ ValidRegisterRecord(rec[11], rec[12])
    /\ \/ Len(rec) = 15 /\ rec[13] = REGISTER_PREFIX /\ ValidRegisterRecord(rec[14], rec[15])
       \/ Len(rec) = 22 /\ rec[13] = CONSTANT_PREFIX /\ rec[14] = TAG_64

\* C28: ADD with a destination of width w leaves the destination equal to
\* (old destination value + source value) mod 2^w and changes no other
\* register and no memory byte outside the destination.
C28_AddWraps ==
    (/\ program.kind = "code"
     /\ RecordAt(last.ip0) # 0
     /\ AddToRegister(program.records[RecordAt(last.ip0)])) =>
        Let(program.records[RecordAt(last.ip0)], LAMBDA rec :
        Let(RegisterFieldOf(rec[11], rec[12]), LAMBDA dst :
            /\ ~last.thrown
            /\ Registers[dst] =
                   Narrow(Add64(last.regs0[dst], SourceValue(SubSeq(rec, 13, Len(rec)))),
                          ClassBytes(rec[11]))
            /\ \A f \in RegisterFields \ {dst} : Registers[f] = last.regs0[f]
            /\ mem = last.mem0))

\* C29: constructing a Target, the decoding and the value reads of a Memory
\* operand's three sub-operands included, changes only the instruction
\* pointer, whether the decoding succeeds or throws: registers and memory are
\* as before, also when the decoding is that of an instruction's operands.
C29_DecodingReadsOnly ==
    (last.op = "pop_target" \/ (last.op = "operation" /\ last.fault = "decode")) =>
        /\ Registers = last.regs0
        /\ mem = last.mem0
        /\ ip >= last.ip0

\* a Memory operand was decoded whose base is a register that had been
\* written before
C29_Witness ==
    /\ last.op = "pop_target"
    /\ ~last.thrown
    /\ target.TargetType = "TypeMemory"
    /\ target.BaseAddress = FromInt(511)
    /\ Registers[<<"FullyExtendedRegister", 0>>] = FromInt(511)
    /\ ip > last.ip0

\* C30: the interrupt vector table is write-once. Every entry that exists
\* holds 0xA0000 + 8 * i in every reachable state, and a step that changes the
\* table is a step of the static initialisation, taken with the table's mutex
\* locked, that adds one entry and leaves the existing ones alone: no step
\* after the static initialisation (operation, soft_interruption_ready, nop,
\* add, operand decoding) inserts, removes or changes an entry.
C30_VectorTableWriteOnce ==
    /\ [](\A i \in DOMAIN interruption_vector_address_table :
             interruption_vector_address_table[i] = 655360 + 8 * i)
    /\ [][interruption_vector_address_table' # interruption_vector_address_table =>
             /\ cpu_pc = "static_init"
             /\ interruption_vector_address_table_mutex_ = "locked"
             /\ DOMAIN interruption_vector_address_table \subseteq
                    DOMAIN interruption_vector_address_table'
             /\ \A i \in DOMAIN interruption_vector_address_table :
                    interruption_vector_address_table'[i] =
                        interruption_vector_address_table[i]]_vars

\* an ADD has executed and written its destination, the table is complete and
\* its mutex is free
C30_Witness ==
    /\ cpu_pc = "running"
    /\ last.op = "operation"
    /\ last.opcode = Opcode(1)
    /\ ~last.thrown
    /\ Registers # last.regs0
    /\ DOMAIN interruption_vector_address_table = 0 .. 511
    /\ interruption_vector_address_table_mutex_ = "unlocked"

\* the ratio bytes the wire format knows: the packed BCD of 1, 2, 4, 8, 16
RatioCodes == {1, 2, 4, 8, TAG_16}

\* C31: every Memory operand record the processor's decoder accepts has a
\* ratio byte that is one of the packed-BCD codes 0x01, 0x02, 0x04, 0x08,
\* 0x16: a memory record with any other ratio byte is rejected.  The records
\* are those laid out as the decoder reads them.
C31_RatioChecked ==
    (program.kind = "cpu" /\ last.op = "pop_target" /\ ~last.thrown
       /\ target.TargetType = "TypeMemory")
        => target.Ratio \in RatioCodes

\* the position in the memory record rec of the prefix of the first of its
\* next n sub-operands, read from position p, that is neither a Register nor
\* a Constant; 0 if there is none (a register takes 3 bytes, a constant 10)
RECURSIVE ForeignPrefixAt(_, _, _)
ForeignPrefixAt(rec, p, n) ==
    IF n = 0 \/ p > Len(rec) THEN 0
    ELSE IF rec[p] = REGISTER_PREFIX THEN ForeignPrefixAt(rec, p + 3, n - 1)
    ELSE IF rec[p] = CONSTANT_PREFIX THEN ForeignPrefixAt(rec, p + 10, n - 1)
    ELSE p

\* C32: a memory record in which a sub-operand begins with a prefix other
\* than 0x01 or 0x02 (a nested MEMORY_PREFIX in particular) is rejected
\* before that sub-operand's payload is consumed: the processor's decoder
\* throws an IllegalInstruction with the instruction pointer no further than
\* the byte after the prefix, and the disassembler throws a
\* TargetExpressionError with everything after the prefix still in its input.
C32_SubOperandPrefix ==
    /\ (DecodedMemoryRecord
          /\ ForeignPrefixAt(program.records[RecordAt(last.ip0)], 3, 3) # 0)
         => /\ last.thrown
            /\ last.fault = "decode"
            /\ cpu_pc = "crashed"
            /\ target.TargetType # "TypeMemory"
            /\ ip <= last.ip0
                       + ForeignPrefixAt(program.records[RecordAt(last.ip0)], 3, 3)
    /\ (cpc \in {"disassembled", "disassemble_thrown", "disassemble_oob"}
          /\ Len(orig) >= 3 /\ orig[1] = MEMORY_PREFIX
          /\ ForeignPrefixAt(orig, 3, 3) # 0)
         => /\ cpc = "disassemble_thrown"
            /\ Len(encode_buffer) >= Len(orig) - ForeignPrefixAt(orig, 3, 3)

\* the processor's decoder stopped with an IllegalInstruction on the prefix
\* of the third sub-operand, a nested MEMORY_PREFIX, after two constants
C32_Witness ==
    /\ DecodedMemoryRecord
    /\ ForeignPrefixAt(program.records[RecordAt(last.ip0)], 3, 3) = 23
    /\ program.records[RecordAt(last.ip0)][23] = MEMORY_PREFIX
    /\ last.thrown
    /\ ip = last.ip0 + 23

\* T is matched by the constant pattern and the calculator ends with a status
\* other than 0 on its expression
CalculatorFails(T) ==
    Let(parse(T), LAMBDA parsed :
        /\ ~parsed.thrown
        /\ parsed.TargetType = "CONSTANT"
        /\ Len(parsed.ConstantExpression) > 2
        /\ bc(process_base16(SubSeq(parsed.ConstantExpression, 3,
                                    Len(parsed.ConstantExpression) - 1))).exit_status # 0)

\* C33: when the calculator ends with a non-zero exit status on a constant's
\* expression, encode_target throws a TargetExpressionError and the buffer
\* holds no sign byte and no value byte of that constant: nothing follows the
\* constant prefix.
C33_CalculatorFailure ==
    (cpc \in {"encoded", "encode_thrown"} /\ CalculatorFails(inp))
        => /\ cpc = "encode_thrown"
           /\ encode_buffer \in {<<>>, <<CONSTANT_PREFIX>>}

\* the assembler was handed a constant on which the calculator failed, and
\* threw
C33_Witness ==
    /\ cpc = "encode_thrown"
    /\ CalculatorFails(inp)
    /\ inp = <<"$", "(", "1", "\"", ")">>

\* C34: encode_target is all-or-nothing on its buffer: when it throws, the
\* buffer holds exactly the bytes it held before the call (none, as main hands
\* it a fresh buffer), so a failed operand leaves no partial record.
C34_AllOrNothing ==
    cpc = "encode_thrown" => encode_buffer = <<>>

\* C35: the readable and the writable register sets coincide: on every
\* register Target, whatever its width tag and index, do_get_register
\* succeeds exactly when do_set_register succeeds, so a read of the Target
\* throws exactly when a write to it would, and a write exactly when a read.
C35_ReadableIsWritable ==
    /\ (target.TargetType = "TypeRegister" /\ last.op = "get")
          => (last.thrown <=> do_set_register(target, Registers, Zero64).thrown)
    /\ (target.TargetType = "TypeRegister" /\ last.op = "set")
          => (last.thrown <=> do_get_register(target, last.regs0).thrown)

\* C36: when two threads each execute an ADD on the same destination register
\* concurrently, the register holds in the end the value before the two ADDs
\* plus both addends, under every interleaving: once both ADDs are done (and
\* no call has begun since), FER0 is the value the earlier read returned plus
\* the two addends, and that earlier read is one of the two reads.
C36_AddAtomic ==
    (\A t \in Threads : threads[t].add = "done" /\ threads[t].target = RegisterTarget(0))
        => \E t \in Threads :
              Registers[<<"FullyExtendedRegister", 0>>] =
                  Add64(Add64(threads[t].value, threads[1].addend), threads[2].addend)

\* C37: the disassembler never reads past the end of its input: no pop runs
\* on a vector that holds fewer bytes than it takes, so that a byte stream
\* cut off in the middle of an operand record ends in a
\* TargetExpressionError and not in a read out of bounds.
C37_NoReadPastEnd ==
    cpc \notin {"decode_oob", "disassemble_oob"}

\* the position after the sub-operand that starts at position p of rec
AfterSubOperand(rec, p) == p + (IF rec[p] = REGISTER_PREFIX THEN 3 ELSE 10)

\* the sum of the values of the three sub-operands of the memory record rec,
\* each read from the record and from the registers as they were
SubOperandSum(rec) ==
    Let(AfterSubOperand(rec, 3), LAMBDA p2 :
    Let(AfterSubOperand(rec, p2), LAMBDA p3 :
        Add64(Add64(SourceValue(SubSeq(rec, 3, Len(rec))),
                    SourceValue(SubSeq(rec, p2, Len(rec)))),
              SourceValue(SubSeq(rec, p3, Len(rec))))))

\* C38: after the processor's decoder has finished a Memory operand, the
\* Target's type is Memory, its width is the access width of the memory
\* record and its address is the effective address, (base + off1 + off2) * r
\* for the ratio r the record's ratio byte stands for, whatever kinds and
\* widths the three sub-operands had that the same Target decoded.
C38_MemoryTargetState ==
    (DecodedMemoryRecord /\ ~last.thrown
       /\ target.Ratio \in RatioCodes)
        => Let(program.records[RecordAt(last.ip0)], LAMBDA rec :
              /\ target.TargetType = "TypeMemory"
              /\ target.TargetWidth = rec[2]
              /\ rec[Len(rec)] = target.Ratio
              /\ ip = last.ip0 + Len(rec)
              /\ target.MemoryAddress =
                     MulSmall64(SubOperandSum(rec), BcdValue(rec[Len(rec)])))

====
